---- MODULE Spec2Model ----
(***************************************************************************)
(* State-machine model of the x402 payment gateway: the abuse detector,    *)
(* the pending-mint counter and capacity manager, the batch settlement     *)
(* coalescer and the POST /mint admission pipeline.                        *)
(*                                                                         *)
(* Every Redis command is one atomic step (Redis executes commands one at  *)
(* a time); the JavaScript between two awaits runs without interleaving,   *)
(* so an action is "a command takes effect, then the code runs up to the   *)
(* next await".  A command may fail in two ways: it throws (the command    *)
(* errored on an acquired connection) or the pool's execute() returns null *)
(* (no connection could be acquired, redisConnectionPool.ts:416-419).      *)
(***************************************************************************)
EXTENDS Integers, Sequences, FiniteSets, TLC

----------------------------------------------------------------------------
(* Bounds of the model *)

\* the clock runs from 0 to MaxTime ticks
MaxTime == 4
\* cap on the value an abuse count key may reach
MaxCount == 4
\* cap on the value of the pending counter
MaxPending == 4
\* the contract's maxMintCount()
MaxMintCount == 3
\* how many Redis commands and chain reads fail in one behaviour
MaxFaults == 1
\* how many overwritten timers are tracked at once
MaxLeaked == 1
\* the largest settle request id
MaxItemId == 3
\* the largest connection id the pool hands out
MaxConnId == 3
\* how many transactions per nonce are counted
MaxSubmitted == 2

(* Configuration of the program, scaled to ticks *)

\* ABUSE_MAX_REQUESTS: requests allowed per window
MaxRequestsPerWindow == 2
\* ABUSE_TIME_WINDOW_MS, in ticks
TimeWindowTicks == 2
\* ABUSE_BAN_DURATION_MS, in ticks (longer than the window, as 1 h is to 3 s)
BanDurationTicks == 3
\* mintCountTTL (6 s), in ticks
MintCountTtlTicks == 2
\* the expiry of pending_mint:<token> (3600 s, as long as a ban), in ticks
PendingTtlTicks == 3
\* the largest recipients.length accepted (100 in the program)
MaxRecipients == 2
\* SETTLE_BATCH_SIZE (10 by default)
BatchSize == 2
\* SETTLE_BATCH_TIMEOUT (5 s), in ticks
BatchTimeoutTicks == 1
\* the delay of the follow-up flush (100 ms), in ticks
RescheduleTicks == 0
\* the sweep's maxAge (120 s), in ticks: longer than the batch timeout
StaleTicks == 2
\* retryAfter of a rate-limit denial, in seconds
RetryAfterSeconds == 3600
\* options.min and options.max of the connection pool (2 and 10 by default)
PoolMin == 1
PoolMax == 2
\* options.acquireTimeout (3 s), in ticks
AcquireTimeoutTicks == 1
\* the period of the pool's health check (30 s), in ticks
HealthCheckTicks == 1
\* options.idleTimeout (5 min): several health-check periods, in ticks
IdleTimeoutTicks == 2
\* the delay of gracefulShutdown's forced exit (10 s), in ticks
HardExitTicks == 1

\* the callers (concurrent logical tasks); a caller serving a POST /mint
\* request uses its number as the request id
Procs == {1, 2}
\* the ids of the coalescer's items
ItemIds == 1..MaxItemId
\* the ids, and the nonces, of the payment requests
PayIds == {1, 2}
\* the ids of the pool's connections (nextConnectionId counts from 1)
ConnIds == 1..MaxConnId
\* client IP strings: a name, whether it contains upper-case characters,
\* and whether it carries the ":expired" suffix
IpNames == {"a"}
Strings == [name : IpNames, upper : BOOLEAN, expired : BOOLEAN]
ClientIps == {s \in Strings : ~s.expired}

\* the values of deploymentDeadline() tried: passed at the start, or still ahead
DeadlineChoices == {0, MaxTime + 1}

\* how a Redis command issued through the pool proxy can end
Outcomes == {"ok", "throw", "null"}

VARIABLES
  now,        \* the clock, in ticks
  faults,     \* how many commands and chain reads have failed so far
  cnt,        \* abuse:count:<id>  value, 0 when the key is absent
  cntExp,     \* abuse:count:<id>  expiry time, 0 when the key has no TTL
  banUntil,   \* abuse:ban:<id>    expiry time, 0 when the key is absent
  whitelist,  \* the ids with an abuse:whitelist:<id> key
  rr,         \* per caller: the activation of AbuseDetector.recordRequest
  admin,      \* the last call of an /api/abuse endpoint and its answer
  pend,       \* pending_mint:<token>  value, 0 when the key is absent
  pendExists, \* whether the key pending_mint:<token> exists
  pendExp,    \* pending_mint:<token>  expiry time, 0 when the key has no TTL
  chainMint,  \* the contract's mintCount()
  maxCache,   \* TokenMaxMintCache.cache entry of the token
  mintCache,  \* TokenCapacityManager.mintCountCache entry of the token
  cap,        \* per caller: the activation of a TokenCapacityManager method
  capFault,   \* history: a write to pending_mint:<token> failed, or the key expired, since epochPre
  epochPre,   \* history: the counter's value when no mint request held capacity
  bsm,        \* the BatchSettleManager singleton
  deadline,   \* the contract's deploymentDeadline()
  deadlineCache, \* whether TokenDeadlineCache holds the token's deadline
  req,        \* per caller: the POST /mint request it serves
  pool,       \* the RedisConnectionPool singleton
  acq,        \* per caller: the activation of RedisConnectionPool.execute
  server,     \* the HTTP server and where gracefulShutdown stands
  pay         \* the payment-request store, the token's nonces, submitAuthorization

abuseVars == <<cnt, cntExp, banUntil, whitelist, rr, admin>>
capVars == <<pend, pendExists, pendExp, chainMint, maxCache, mintCache, cap,
             capFault>>
mintVars == <<epochPre, bsm, deadline, deadlineCache, req>>
\* what the capacity manager works on besides its activations
capStore == <<pend, pendExists, pendExp, chainMint, maxCache, mintCache, capFault>>
\* what the request pipeline never touches
poolVars == <<pool, acq, server, pay>>
nonAbuseVars == <<capVars, mintVars, poolVars>>
nonCapVars == <<abuseVars, mintVars, poolVars>>
nonPoolVars == <<abuseVars, capVars, mintVars, pay>>
vars == <<now, faults, abuseVars, capVars, mintVars, poolVars>>

----------------------------------------------------------------------------
(* Failures of the environment *)

\* a command or chain read succeeds, or fails while failures are left to spend
Charge(ok) ==
  /\ ok \/ faults < MaxFaults
  /\ faults' = IF ok THEN faults ELSE faults + 1

----------------------------------------------------------------------------
(* Strings *)

\* String.prototype.toLowerCase
ToLowerCase(s) == [s EXCEPT !.upper = FALSE]

\* `${clientIP}:expired`
ExpiredSuffixDropped(ip) == ip

ExpiredSuffix(ip) == [ip EXCEPT !.expired = TRUE]

\* createIdentifier(undefined, ip) = `ip:${ip}`: the ip is kept as given
CreateIdentifier(ip) == ip

----------------------------------------------------------------------------
(* The abuse keys of the KV store *)

BanExists(k) == banUntil[k] > now
CountExists(k) == cnt[k] > 0

RRIdle == [pc |-> "idle", key |-> CHOOSE s \in Strings : TRUE, site |-> "none",
           count |-> 0, allowed |-> TRUE, fault |-> FALSE,
           \* history: EXISTS returned 1 for the whitelist key, for the ban key
           wl |-> FALSE, sawBan |-> FALSE]

\* isWhitelisted: exists === 1 (a null result is not 1)
IsWhitelistedNever(o, exists) == FALSE

IsWhitelisted(o, exists) == o = "ok" /\ exists

\* isBanned: result === 1, and false when the command throws
IsBannedOnError(o, exists) == o # "ok" \/ exists

IsBanned(o, exists) == o = "ok" /\ exists

\* if (count > this.config.maxRequestsPerWindow)
OverLimitInclusive(count) == count >= MaxRequestsPerWindow

OverLimit(count) == count > MaxRequestsPerWindow

\* the activation a once recordRequest has returned {allowed}
Returned(a, allowed, count, fault) ==
  [a EXCEPT !.pc = "ret", !.allowed = allowed, !.count = count, !.fault = @ \/ fault]

RRReturn(p, allowed, count, fault) ==
  rr' = [rr EXCEPT ![p] = Returned(rr[p], allowed, count, fault)]

\* recordRequest(identifier) is entered: key = identifier.toLowerCase()
RRBegin(p, identifier, site) ==
  [rr EXCEPT ![p] = [RRIdle EXCEPT !.pc = "wl", !.key = ToLowerCase(identifier),
                                   !.site = site]]

\* await this.isWhitelisted(key): redis.exists(whitelistKey) === 1
RRWhitelist(p) ==
  /\ rr[p].pc = "wl"
  /\ \E o \in Outcomes :
       /\ Charge(o = "ok")
       /\ LET a == [rr[p] EXCEPT !.wl = (o = "ok" /\ rr[p].key \in whitelist)] IN
          IF o = "throw"
          THEN rr' = [rr EXCEPT ![p] = Returned(a, TRUE, 0, TRUE)]
          ELSE IF IsWhitelisted(o, rr[p].key \in whitelist)
               THEN rr' = [rr EXCEPT ![p] = Returned(a, TRUE, 0, FALSE)]
               ELSE rr' = [rr EXCEPT ![p] = [a EXCEPT !.pc = "ban", !.fault = (o # "ok")]]
  /\ UNCHANGED <<now, cnt, cntExp, banUntil, whitelist, admin, nonAbuseVars>>

\* await this.isBanned(key): redis.exists(banKey) === 1, false on an error
RRIsBanned(p) ==
  /\ rr[p].pc = "ban"
  /\ \E o \in Outcomes :
       /\ Charge(o = "ok")
       /\ rr' = [rr EXCEPT ![p].pc = IF IsBanned(o, BanExists(rr[p].key))
                                      THEN "ttl" ELSE "incr",
                           ![p].sawBan = (o = "ok" /\ BanExists(rr[p].key)),
                           ![p].fault = @ \/ (o # "ok")]
  /\ UNCHANGED <<now, cnt, cntExp, banUntil, whitelist, admin, nonAbuseVars>>

\* the banned branch: await redis.ttl(banKey), then {allowed: false}
RRTtl(p) ==
  /\ rr[p].pc = "ttl"
  /\ \E o \in Outcomes :
       /\ Charge(o = "ok")
       /\ IF o = "throw"
          THEN RRReturn(p, TRUE, 0, TRUE)
          ELSE RRReturn(p, FALSE, 0, o # "ok")
  /\ UNCHANGED <<now, cnt, cntExp, banUntil, whitelist, admin, nonAbuseVars>>

\* const count = await redis.incr(countKey), and the code up to the next await
RRIncr(p) ==
  /\ rr[p].pc = "incr"
  /\ cnt[rr[p].key] < MaxCount
  /\ \E o \in Outcomes :
       /\ Charge(o = "ok")
       /\ LET k == rr[p].key
              \* a null result compares like 0: null === 1 and null > L are false
              count == IF o = "ok" THEN cnt[k] + 1 ELSE 0
          IN
          /\ cnt' = IF o = "ok" THEN [cnt EXCEPT ![k] = count] ELSE cnt
          /\ IF o = "throw"
             THEN RRReturn(p, TRUE, 0, TRUE)
             ELSE IF count = 1
                  THEN /\ rr' = [rr EXCEPT ![p].pc = "pexpire", ![p].count = count]
                  ELSE IF OverLimit(count)
                       THEN /\ rr' = [rr EXCEPT ![p].pc = "setban", ![p].count = count]
                       ELSE RRReturn(p, TRUE, count, o # "ok")
  /\ UNCHANGED <<now, cntExp, banUntil, whitelist, admin, nonAbuseVars>>

\* if (count === 1) await redis.pexpire(countKey, timeWindowMs)
RRPexpire(p) ==
  /\ rr[p].pc = "pexpire"
  /\ \E o \in Outcomes :
       /\ Charge(o = "ok")
       /\ LET k == rr[p].key IN
          /\ cntExp' = IF o = "ok" /\ CountExists(k)
                       THEN [cntExp EXCEPT ![k] = now + TimeWindowTicks]
                       ELSE cntExp
          /\ IF o = "throw"
             THEN RRReturn(p, TRUE, rr[p].count, TRUE)
             ELSE IF OverLimit(rr[p].count)
                  THEN /\ rr' = [rr EXCEPT ![p].pc = "setban",
                                           ![p].fault = @ \/ (o # "ok")]
                  ELSE RRReturn(p, TRUE, rr[p].count, o # "ok")
  /\ UNCHANGED <<now, cnt, banUntil, whitelist, admin, nonAbuseVars>>

\* await this.banIdentifier(key): redis.set(banKey, '1', 'PX', banDurationMs),
\* errors swallowed; then {allowed: false}
RRSetBan(p) ==
  /\ rr[p].pc = "setban"
  /\ \E o \in Outcomes :
       /\ Charge(o = "ok")
       /\ /\ banUntil' = IF o = "ok"
                         THEN [banUntil EXCEPT ![rr[p].key] = now + BanDurationTicks]
                         ELSE banUntil
          /\ RRReturn(p, FALSE, rr[p].count, o # "ok")
  /\ UNCHANGED <<now, cnt, cntExp, whitelist, admin, nonAbuseVars>>

RecordRequestStep(p) ==
  \/ RRWhitelist(p)
  \/ RRIsBanned(p)
  \/ RRTtl(p)
  \/ RRIncr(p)
  \/ RRPexpire(p)
  \/ RRSetBan(p)

----------------------------------------------------------------------------
(* Administrative operations of the abuse detector: one command each *)

\* addToWhitelist(identifier): redis.set(WHITELIST_PREFIX + lower(identifier), '1')
AddToWhitelist(identifier) ==
  /\ \E o \in Outcomes :
       /\ Charge(o = "ok")
       /\ whitelist' = IF o = "ok" THEN whitelist \cup {ToLowerCase(identifier)}
                       ELSE whitelist
  /\ UNCHANGED <<now, cnt, cntExp, banUntil, rr, admin, nonAbuseVars>>

\* removeFromWhitelist(identifier): redis.del(WHITELIST_PREFIX + lower(identifier))
RemoveFromWhitelist(identifier) ==
  /\ ToLowerCase(identifier) \in whitelist
  /\ \E o \in Outcomes :
       /\ Charge(o = "ok")
       /\ whitelist' = IF o = "ok" THEN whitelist \ {ToLowerCase(identifier)}
                       ELSE whitelist
  /\ UNCHANGED <<now, cnt, cntExp, banUntil, rr, admin, nonAbuseVars>>

----------------------------------------------------------------------------
(* The /api/abuse endpoints: each awaits one method of the abuse detector *)
(* and answers {status: 'ok'}, or 500 from its catch block                *)

AdminNone == [op |-> "none", id |-> CHOOSE s \in Strings : TRUE, o |-> "ok",
              status |-> 0, until |-> 0, before |-> {}]

\* the answer of an endpoint whose method ended with outcome o; rethrown says
\* whether the method lets the command's error reach the endpoint's catch.
\* history: until is when a ban set by the call runs out, before the callers
\* whose recordRequest had begun when the call was made
AdminAnswer(op, identifier, o, rethrown, until) ==
  [op |-> op, id |-> identifier, o |-> o,
   status |-> IF rethrown /\ o = "throw" THEN 500 ELSE 200,
   until |-> until, before |-> {p \in Procs : rr[p].pc # "idle"}]

\* POST /api/abuse/ban: manualBan(identifier, durationMs) sets
\* BAN_PREFIX + identifier with PX durationMs || banDurationMs and swallows errors
PostAbuseBan(identifier) ==
  /\ \E o \in Outcomes, durationMs \in {0, 1} :
       LET duration == IF durationMs # 0 THEN durationMs ELSE BanDurationTicks IN
       /\ Charge(o = "ok")
       /\ banUntil' = IF o = "ok"
                      THEN [banUntil EXCEPT ![identifier] = now + duration]
                      ELSE banUntil
       /\ admin' = AdminAnswer("ban", identifier, o, FALSE, now + duration)
  /\ UNCHANGED <<now, cnt, cntExp, whitelist, rr, nonAbuseVars>>

\* POST /api/abuse/unban: unban(identifier) deletes REQUEST_COUNT_PREFIX +
\* identifier and BAN_PREFIX + identifier in one DEL and swallows errors
PostAbuseUnban(identifier) ==
  /\ \E o \in Outcomes :
       /\ Charge(o = "ok")
       /\ IF o = "ok"
          THEN /\ cnt' = [cnt EXCEPT ![identifier] = 0]
               /\ cntExp' = [cntExp EXCEPT ![identifier] = 0]
               /\ banUntil' = [banUntil EXCEPT ![identifier] = 0]
          ELSE UNCHANGED <<cnt, cntExp, banUntil>>
       /\ admin' = AdminAnswer("unban", identifier, o, FALSE, 0)
  /\ UNCHANGED <<now, whitelist, rr, nonAbuseVars>>

\* POST /api/abuse/whitelist/add and /remove: addToWhitelist and
\* removeFromWhitelist log the command's error and throw it again
PostWhitelist(op, identifier) ==
  /\ \E o \in Outcomes :
       /\ Charge(o = "ok")
       /\ whitelist' = IF o # "ok" THEN whitelist
                       ELSE IF op = "add"
                            THEN whitelist \cup {ToLowerCase(identifier)}
                            ELSE whitelist \ {ToLowerCase(identifier)}
       /\ admin' = AdminAnswer(op, identifier, o, TRUE, 0)
  /\ UNCHANGED <<now, cnt, cntExp, banUntil, rr, nonAbuseVars>>

----------------------------------------------------------------------------
(* Capacity: caches, pending counter, TokenCapacityManager *)

CapIdle == [pc |-> "idle", site |-> "none", n |-> 0, t0 |-> 0,
            cachedSet |-> FALSE, cachedVal |-> 0,
            curSt |-> "none", maxSt |-> "none", pndSt |-> "none",
            cur |-> 0, max |-> 0, pnd |-> 0, fault |-> FALSE,
            result |-> "none", avail |-> 0]

\* the value a GET / INCRBY / DECRBY sees: an absent key counts as 0
PendValue == IF pendExists THEN pend ELSE 0

\* checkCapacity's decision on the three values it read
CheckDecisionOffByOne(cur, max, pnd, n) ==
  [exceeded |-> cur + pnd + n >= max, availableSlots |-> max - cur - pnd]

CheckDecision(cur, max, pnd, n) ==
  [exceeded |-> cur + pnd + n > max, availableSlots |-> max - cur - pnd]

\* checkCapacity(token, n) is entered: Promise.all starts the three reads; the
\* two caches are looked up synchronously, at the call
CheckBegin(p, n, site) ==
  LET hit == mintCache.set /\ now - mintCache.fetchedAt < MintCountTtlTicks IN
  [cap EXCEPT ![p] =
     [CapIdle EXCEPT !.pc = "check", !.site = site, !.n = n,
                     !.t0 = IF hit THEN 0 ELSE now,
                     !.cachedSet = ~hit /\ mintCache.set,
                     !.cachedVal = IF ~hit /\ mintCache.set THEN mintCache.value ELSE 0,
                     !.curSt = IF hit THEN "ok" ELSE "wait",
                     !.cur = IF hit THEN mintCache.value ELSE 0,
                     !.maxSt = IF maxCache.set THEN "ok" ELSE "wait",
                     !.max = IF maxCache.set THEN maxCache.value ELSE 0,
                     !.pndSt = "wait"]]

\* getCurrentMintCount: the chain read of mintCount() returns or fails; the
\* entry is stamped with the time of the call, and a failed read falls back
\* to the entry seen at the call
CapCurRead(p) ==
  /\ cap[p].pc = "check"
  /\ cap[p].curSt = "wait"
  /\ \E ok \in BOOLEAN :
       /\ Charge(ok)
       /\ LET done == [cap[p] EXCEPT !.t0 = 0, !.cachedSet = FALSE, !.cachedVal = 0] IN
          IF ok
          THEN /\ mintCache' = [set |-> TRUE, value |-> chainMint, fetchedAt |-> cap[p].t0]
               /\ cap' = [cap EXCEPT ![p] = [done EXCEPT !.curSt = "ok", !.cur = chainMint]]
          ELSE /\ cap' = IF cap[p].cachedSet
                         THEN [cap EXCEPT ![p] = [done EXCEPT !.curSt = "ok",
                                                              !.cur = cap[p].cachedVal]]
                         ELSE [cap EXCEPT ![p] = [done EXCEPT !.curSt = "fail"]]
               /\ UNCHANGED mintCache
  /\ UNCHANGED <<now, pend, pendExists, pendExp, chainMint, maxCache, capFault, nonCapVars>>

\* TokenMaxMintCache.getMaxMintCount: the chain read of maxMintCount() returns or fails
CapMaxRead(p) ==
  /\ cap[p].pc = "check"
  /\ cap[p].maxSt = "wait"
  /\ \E ok \in BOOLEAN :
       /\ Charge(ok)
       /\ IF ok
          THEN /\ maxCache' = [set |-> TRUE, value |-> MaxMintCount]
               /\ cap' = [cap EXCEPT ![p].maxSt = "ok", ![p].max = MaxMintCount]
          ELSE /\ cap' = [cap EXCEPT ![p].maxSt = "fail"]
               /\ UNCHANGED maxCache
  /\ UNCHANGED <<now, pend, pendExists, pendExp, chainMint, mintCache, capFault, nonCapVars>>

\* PendingMintTracker.getPendingCount: redis.get(key); 0 on a null result or an error
CapPendGet(p) ==
  /\ cap[p].pc = "check"
  /\ cap[p].pndSt = "wait"
  /\ \E o \in Outcomes :
       /\ Charge(o = "ok")
       /\ cap' = [cap EXCEPT ![p].pndSt = "ok",
                             ![p].pnd = IF o = "ok" THEN PendValue ELSE 0,
                             ![p].fault = (o # "ok")]
  /\ UNCHANGED <<now, pend, pendExists, pendExp, chainMint, maxCache, mintCache, capFault, nonCapVars>>

\* Promise.all settles: it rejects as soon as one read has failed (the reads
\* still in flight are abandoned), and fulfils when all three have returned;
\* then checkCapacity throws CAPACITY_EXCEEDED or returns capacityInfo
CapCheckFinish(p) ==
  /\ cap[p].pc = "check"
  /\ LET failed == cap[p].curSt = "fail" \/ cap[p].maxSt = "fail"
         d == CheckDecision(cap[p].cur, cap[p].max, cap[p].pnd, cap[p].n)
     IN
     /\ failed \/ (cap[p].curSt = "ok" /\ cap[p].maxSt = "ok" /\ cap[p].pndSt = "ok")
     /\ cap' = [cap EXCEPT ![p] =
                  IF failed
                  THEN [CapIdle EXCEPT !.pc = "checkret", !.site = cap[p].site,
                                       !.n = cap[p].n, !.result = "error"]
                  ELSE [cap[p] EXCEPT !.pc = "checkret",
                          !.curSt = "none", !.maxSt = "none", !.pndSt = "none",
                          !.result = IF d.exceeded THEN "exceeded" ELSE "ok",
                          !.avail = d.availableSlots]]
  /\ UNCHANGED <<now, faults, pend, pendExists, pendExp, chainMint, maxCache, mintCache, capFault, nonCapVars>>

\* reserveCapacity(token, n) -> incrementPending is entered
ReserveBeginExtra(p, n, site) ==
  [cap EXCEPT ![p] = [CapIdle EXCEPT !.pc = "incrby", !.site = site, !.n = n + 1]]

ReserveBegin(p, n, site) ==
  [cap EXCEPT ![p] = [CapIdle EXCEPT !.pc = "incrby", !.site = site, !.n = n]]

\* releaseCapacity(token, n) -> decrementPending is entered
ReleaseCallShort(n, site) == [CapIdle EXCEPT !.pc = "decrby", !.site = site, !.n = n - 1]

ReleaseCall(n, site) == [CapIdle EXCEPT !.pc = "decrby", !.site = site, !.n = n]

ReleaseBegin(p, n, site) == [cap EXCEPT ![p] = ReleaseCall(n, site)]

\* incrementPending: const newCount = await redis.incrby(key, count)
CapIncrBy(p) ==
  /\ cap[p].pc = "incrby"
  /\ PendValue + cap[p].n <= MaxPending
  /\ \E o \in Outcomes :
       /\ Charge(o = "ok")
       /\ /\ IF o = "ok"
             THEN /\ pend' = PendValue + cap[p].n
                  /\ pendExists' = TRUE
             ELSE UNCHANGED <<pend, pendExists>>
          /\ cap' = [cap EXCEPT ![p].pc = IF o = "throw" THEN "resret" ELSE "expire",
                                ![p].fault = (o # "ok")]
          /\ capFault' = (capFault \/ o # "ok")
  /\ UNCHANGED <<now, pendExp, chainMint, maxCache, mintCache, nonCapVars>>

\* incrementPending: await redis.expire(key, 3600)
CapExpire(p) ==
  /\ cap[p].pc = "expire"
  /\ \E o \in Outcomes :
       /\ Charge(o = "ok")
       /\ /\ pendExp' = IF o = "ok" /\ pendExists THEN now + PendingTtlTicks ELSE pendExp
          /\ capFault' = (capFault \/ o # "ok")
          /\ cap' = [cap EXCEPT ![p].pc = "resret", ![p].fault = @ \/ (o # "ok")]
  /\ UNCHANGED <<now, pend, pendExists, chainMint, maxCache, mintCache, nonCapVars>>

\* the next step of decrementPending after DECRBY returned newCount
AfterDecrByKeepKey(newCount) == "relret"

AfterDecrBy(newCount) == IF newCount <= 0 THEN "del" ELSE "relret"

\* decrementPending: const newCount = await redis.decrby(key, count);
\* a null result compares like 0 in newCount <= 0
CapDecrBy(p) ==
  /\ cap[p].pc = "decrby"
  /\ PendValue - cap[p].n >= -MaxRecipients
  /\ \E o \in Outcomes :
       /\ Charge(o = "ok")
       /\ LET newCount == IF o = "ok" THEN PendValue - cap[p].n ELSE 0 IN
          /\ IF o = "ok"
             THEN /\ pend' = newCount
                  /\ pendExists' = TRUE
             ELSE UNCHANGED <<pend, pendExists>>
          /\ cap' = [cap EXCEPT ![p].pc = IF o = "throw" THEN "relret"
                                          ELSE AfterDecrBy(newCount),
                                ![p].fault = (o # "ok")]
          /\ capFault' = (capFault \/ o # "ok")
  /\ UNCHANGED <<now, pendExp, chainMint, maxCache, mintCache, nonCapVars>>

\* decrementPending: if (newCount <= 0) await redis.del(key)
CapDel(p) ==
  /\ cap[p].pc = "del"
  /\ \E o \in Outcomes :
       /\ Charge(o = "ok")
       /\ /\ IF o = "ok"
             THEN /\ pend' = 0
                  /\ pendExists' = FALSE
                  /\ pendExp' = 0
             ELSE UNCHANGED <<pend, pendExists, pendExp>>
          /\ capFault' = (capFault \/ o # "ok")
          /\ cap' = [cap EXCEPT ![p].pc = "relret", ![p].fault = @ \/ (o # "ok")]
  /\ UNCHANGED <<now, chainMint, maxCache, mintCache, nonCapVars>>

\* the steps of checkCapacity, of reserveCapacity and of releaseCapacity
CheckStep(p) ==
  \/ CapCurRead(p)
  \/ CapMaxRead(p)
  \/ CapPendGet(p)
  \/ CapCheckFinish(p)

ReserveStep(p) ==
  \/ CapIncrBy(p)
  \/ CapExpire(p)

ReleaseStep(p) ==
  \/ CapDecrBy(p)
  \/ CapDel(p)

\* mints confirmed on chain by other parties raise mintCount()
ChainMintAdvance ==
  /\ chainMint < MaxMintCount
  /\ chainMint' = chainMint + 1
  /\ UNCHANGED <<now, faults, pend, pendExists, pendExp, maxCache, mintCache, cap, capFault, nonCapVars>>

----------------------------------------------------------------------------
(* POST /mint: the request record, and how the handler resumes after settle *)

\* new Error(`${text}: ${arg}`): the text of a message and what it interpolates
Msg(text, arg) == [text |-> text, arg |-> arg]

\* no message: an undefined or empty error string
NoMsg == Msg("", "")

\* the X-Payment-Options header of the 402 answer: scheme, network, payment
\* token and amount are fixed, payee is the token address of the request
PaymentOptionsStamped(rec) ==
  [scheme |-> "exact", network |-> "bsc", payee |-> "tokenAddress",
   amount |-> IF now % 2 = 0 THEN "MINT_PRICE_USDT" ELSE "MINT_PRICE_USDT+1"]

PaymentOptions(rec) ==
  [scheme |-> "exact", network |-> "bsc", payee |-> "tokenAddress",
   amount |-> "MINT_PRICE_USDT"]

\* no such header
NoOptions == [scheme |-> "", network |-> "", payee |-> "", amount |-> ""]

ReqIdle == [pc |-> "idle", n |-> 0, skip |-> FALSE, vres |-> "none",
            sres |-> "none", reserved |-> FALSE, status |-> 0, body |-> "none",
            retryAfter |-> 0, avail |-> 0,
            \* error.reason and error.message of a caught settle error, as the
            \* response reports them (reason, details)
            reason |-> "none", details |-> NoMsg,
            \* the X-Payment-Options header of the response
            options |-> NoOptions,
            \* history
            relCalls |-> 0, trace |-> <<>>]

\* res.status(status).json(body): the response is sent and the handler
\* returns; of the request, the route, the outcome of settle, the reason
\* reported and the history are kept
Respond(rec, status, body) ==
  [ReqIdle EXCEPT !.pc = "responded", !.status = status, !.body = body,
                  !.skip = rec.skip, !.sres = rec.sres, !.reserved = rec.reserved,
                  !.reason = rec.reason, !.details = rec.details,
                  !.relCalls = rec.relCalls, !.trace = rec.trace]

\* the caller holds a reservation or is changing the pending counter
InFlight(r) == req[r].pc \in {"reserve", "settle", "release"}

\* how the promise a caller awaits is settled: promise.resolve(result) with or
\* without a transaction id, promise.reject(new Error(message)), or the
\* rejection by withTimeout's timer
Resolved(transaction) ==
  [kind |-> IF transaction THEN "ok" ELSE "notx", message |-> NoMsg]

Rejected(message) == [kind |-> "reject", message |-> message]

TimedOut == [kind |-> "timeout", message |-> Msg("Batch settle timed out", "")]

\* what the awaited promise does for each result of the coalescer: resolve
\* with a transaction, resolve without one, or reject
Settlement(result) == result.kind

\* error.reason of what the handler catches: the coalescer and withTimeout
\* reject with plain Error objects, which carry no reason
ErrorReason(result) == "undefined"

\* the catch branch of the settle step chooses the status on error.reason
SettleErrorStatus(reason) ==
  IF reason = "mempool_capacity_exceeded" THEN 400
  ELSE IF reason = "chain_query_failed" THEN 503
  ELSE 500

\* the status and body the handler answers with, once settle ended with k
\* and, when it was caught as an error, with error.reason = reason
SettleResponse(k, reason) ==
  IF k = "ok" THEN [status |-> 200, body |-> "success"]
  ELSE IF k = "notx" THEN [status |-> 500, body |-> "missing_transaction"]
  ELSE [status |-> SettleErrorStatus(reason), body |-> "settle_error"]

\* whether the branch taken after settle ended with k calls releaseCapacity
ReleaseOnSettleOutcomeButTimeout(k, capacityReserved) ==
  capacityReserved /\ k # "timeout"

ReleaseOnSettleOutcome(k, capacityReserved) == capacityReserved

\* the handler resumes from `await withTimeout(addToQueue(...))` with the
\* promise settled as result, and runs to its next await (releaseCapacity) or
\* to its response
ResumeReq(r, result) ==
  LET k == Settlement(result)
      caught == k \in {"reject", "timeout"}
      rec == [req[r] EXCEPT !.sres = k,
                            !.reason = IF caught THEN ErrorReason(result) ELSE @,
                            !.details = IF caught THEN result.message ELSE @,
                            !.trace = IF k = "ok" THEN Append(@, "Settled") ELSE @]
      answer == SettleResponse(k, rec.reason)
  IN IF ReleaseOnSettleOutcome(k, rec.reserved)
     THEN [rec EXCEPT !.pc = "release", !.relCalls = @ + 1]
     ELSE Respond(rec, answer.status, answer.body)

\* promise settlements outs (id -> outcome) reach the handlers still waiting
Deliver(outs) ==
  LET W == {r \in DOMAIN outs \cap Procs : req[r].pc = "settle"} IN
  /\ req' = [r \in Procs |-> IF r \in W THEN ResumeReq(r, outs[r]) ELSE req[r]]
  /\ cap' = [r \in Procs |->
               IF r \in W /\ ReleaseOnSettleOutcome(Settlement(outs[r]), req[r].reserved)
               THEN ReleaseCall(req[r].n, "mint") ELSE cap[r]]

----------------------------------------------------------------------------
(* The settlement coalescer: BatchSettleManager *)

NoTimer == [set |-> FALSE, due |-> 0]

\* a promise that has not been settled
NotSettled == [kind |-> "none", message |-> NoMsg, verify |-> "none"]

BsmInit == [queue |-> <<>>, promises |-> {}, timer |-> NoTimer, leaked |-> 0,
            processing |-> FALSE, phase |-> "idle", batch |-> <<>>, valid |-> <<>>,
            \* verifyResults of the batch: "valid" or the reason of an invalid item
            verify |-> [i \in ItemIds |-> "none"],
            \* batchSettleManagerInstance !== null, and where flushAll() stands
            instance |-> TRUE, flushAll |-> "idle",
            \* history: the ids queued when the batch was taken, in the order
            \* they were enqueued, and the ids the verify step found valid
            snap |-> <<>>, validSet |-> {},
            \* history: what the last flush or sweep settled the promises of
            \* callers other than mint handlers with, and what the verify step
            \* had said of their items
            done |-> [i \in ItemIds |-> NotSettled],
            \* history: what the last run of cleanupStale returned
            cleaned |-> 0,
            \* history: result.results.length of the last answer of
            \* POST /settle/batch, -1 when the last batch got none
            entries |-> -1]

Range(s) == {s[i] : i \in 1..Len(s)}
Min(a, b) == IF a < b THEN a ELSE b
QueueIds(q) == [i \in 1..Len(q) |-> q[i].id]
IndexOf(s, x) == CHOOSE i \in 1..Len(s) : s[i] = x

\* queue.delete(id) for every id in D
RemoveNone(q, D) == q

Remove(q, D) == SelectSeq(q, LAMBDA it : it.id \notin D)

\* Array.prototype.slice(0, k)
SliceFromEnd(s, k) == SubSeq(s, Len(s) - Min(Len(s), k) + 1, Len(s))

Slice(s, k) == SubSeq(s, 1, Min(Len(s), k))

\* validItems = verifyResults.filter(r => r.valid).map(r => r.item)
ValidItems(batch, V) == SelectSeq(batch, LAMBDA i : i \in V)

\* flush(), up to `await this.batchSettle(batchItems)`
BsmFlushReentrant(b) ==
  LET b1 == [b EXCEPT !.timer = NoTimer] IN
  IF Len(b1.queue) = 0
  THEN b1
  ELSE [b1 EXCEPT !.processing = TRUE, !.phase = "verify",
                  !.batch = SubSeq(QueueIds(b1.queue), 1, Min(Len(b1.queue), BatchSize)),
                  !.snap = QueueIds(b1.queue), !.done = [i \in ItemIds |-> NotSettled],
                  !.cleaned = 0, !.entries = -1]

BsmFlush(b) ==
  LET b1 == [b EXCEPT !.timer = NoTimer] IN
  IF b1.processing \/ Len(b1.queue) = 0
  THEN b1
  ELSE LET ids == QueueIds(b1.queue)
           batchIds == Slice(ids, BatchSize)
       IN [b1 EXCEPT !.processing = TRUE, !.phase = "verify", !.batch = batchIds,
                     !.snap = ids, !.done = [i \in ItemIds |-> NotSettled],
                     !.cleaned = 0, !.entries = -1]

\* addToQueue(requestId, ...): the promise executor
BsmAdd(b, id) ==
  LET b1 == [b EXCEPT !.queue = Append(@, [id |-> id, ts |-> now]),
                      !.promises = @ \cup {id}]
  IN IF Len(b1.queue) >= BatchSize
     THEN BsmFlush(b1)
     ELSE IF ~b1.timer.set
          THEN [b1 EXCEPT !.timer = [set |-> TRUE, due |-> now + BatchTimeoutTicks]]
          ELSE b1

\* the rest of flush(): the promises found for the batch's items are settled
\* and their entries deleted; finally, processing is cleared and a timer is
\* stored for what is left, over whatever handle this.timer held
BsmFinishNoReschedule(b) ==
  [b EXCEPT !.queue = SelectSeq(@, LAMBDA it : it.id \notin (Range(b.batch) \cap b.promises)),
            !.promises = @ \ Range(b.batch),
            !.processing = FALSE, !.phase = "idle", !.batch = <<>>,
            !.valid = <<>>, !.snap = <<>>, !.validSet = {},
            !.verify = [i \in ItemIds |-> "none"]]

BsmFinish(b) ==
  LET D == Range(b.batch) \cap b.promises
      b1 == [b EXCEPT !.queue = Remove(@, D), !.promises = @ \ D,
                      !.processing = FALSE, !.phase = "idle", !.batch = <<>>,
                      !.valid = <<>>, !.snap = <<>>, !.validSet = {},
                      !.verify = [i \in ItemIds |-> "none"]]
  IN IF Len(b1.queue) > 0
     THEN [b1 EXCEPT !.timer = [set |-> TRUE, due |-> now + RescheduleTicks],
                     !.leaked = IF b.timer.set THEN Min(@ + 1, MaxLeaked) ELSE @]
     ELSE b1

\* flushAll(): while (queue.size > 0 && !processing) await this.flush(); when
\* the loop ends, shutdownBatchSettleManager sets the instance to null
FlushAllLoop(b) ==
  IF Len(b.queue) > 0 /\ ~b.processing
  THEN [BsmFlush(b) EXCEPT !.flushAll = "await"]
  ELSE [b EXCEPT !.flushAll = "done", !.instance = FALSE]

\* the promises settled by a flush or sweep, as their waiters see them: a
\* mint handler resumes (Deliver), any other caller's outcome is kept
Settled(outs, verify) ==
  [i \in ItemIds |-> IF i \in DOMAIN outs /\ (i \in Procs => req[i].pc = "idle")
                      THEN [kind |-> outs[i].kind, message |-> outs[i].message,
                            verify |-> verify[i]]
                      ELSE NotSettled]

\* batchSettle returned results (or threw) after the verify step had answered
\* verify and the POST had answered n entries: flush() completes, and a
\* flushAll() that awaited it goes round its loop
FlushComplete(outs, verify, n) ==
  LET delivered == [i \in Range(bsm.batch) \cap bsm.promises |-> outs[i]]
      b1 == BsmFinish(bsm)
      b2 == IF bsm.flushAll = "await" THEN FlushAllLoop(b1) ELSE b1
  IN /\ bsm' = [b2 EXCEPT !.done = Settled(delivered, verify), !.entries = n]
     /\ Deliver(delivered)

\* the batch timer (or the 100 ms follow-up timer) fires: () => this.flush()
TimerFire ==
  /\ bsm.timer.set
  /\ bsm' = BsmFlush(bsm)
  /\ UNCHANGED <<now, faults, abuseVars, capVars, epochPre, deadline, poolVars, deadlineCache, req>>

\* a timer whose handle was overwritten fires: () => this.flush()
LeakedTimerFire ==
  /\ bsm.leaked > 0
  /\ bsm' = [BsmFlush(bsm) EXCEPT !.leaked = @ - 1]
  /\ UNCHANGED <<now, faults, abuseVars, capVars, epochPre, deadline, poolVars, deadlineCache, req>>

\* what a POST /verify can say of an item that is not valid: result.invalidReason
\* (absent in some answers), `HTTP ${status}`, or the message of a fetch error
VerifyReasons == {"", "insufficient_funds"}

\* what the facilitator can report as the error of an item it did not settle
FacilitatorErrors == {"", "mempool_capacity_exceeded", "chain_query_failed"}

\* the entries of result.results in the answer of POST /settle/batch
SettleResults ==
  {[success |-> TRUE, transaction |-> t, error |-> NoMsg] : t \in BOOLEAN} \cup
  {[success |-> FALSE, transaction |-> FALSE, error |-> Msg(e, "")] :
     e \in FacilitatorErrors}

\* invalidItem?.reason || 'unknown'
ReasonText(reason) == IF reason = "" THEN "unknown" ELSE reason

\* invalidItems.find(inv => inv.item.requestId === item.requestId)?.reason
InvalidReason(verify, i) == verify[i]

\* batchSettle with no valid item: every item gets the same failure, no POST
AllInvalidResult ==
  [success |-> FALSE, transaction |-> FALSE,
   error |-> Msg("All payments failed verification", "")]

\* batchSettle's result for item i of the batch, from the results of the POST:
\* the entry at the item's index among the valid items, or the verify failure
FinalResult(b, results, i) ==
  IF i \in Range(b.valid)
  THEN results[IndexOf(b.valid, i)]
  ELSE [success |-> FALSE, transaction |-> FALSE,
        error |-> Msg("Verification failed", ReasonText(InvalidReason(b.verify, i)))]

\* flush(): promise.resolve(result), or
\* promise.reject(new Error(result.error || 'Settle failed'))
Complete(result) ==
  IF result.success
  THEN Resolved(result.transaction)
  ELSE Rejected(IF result.error = NoMsg THEN Msg("Settle failed", "") ELSE result.error)

\* batchSettle threw (fetch failed, or the POST answered a non-2xx status):
\* the catch branch of flush rejects every item of the batch with that error
TransportFailureOfFirst(batch) ==
  [i \in ItemIds |-> IF i = batch[1]
                      THEN Rejected(Msg("Facilitator batch settle failed", "status"))
                      ELSE Resolved(FALSE)]

TransportFailure(batch) ==
  [i \in ItemIds |-> Rejected(Msg("Facilitator batch settle failed", "status"))]

\* gracefulShutdown -> shutdownBatchSettleManager: await flushAll(), then the
\* instance is set to null
ShutdownSignal ==
  /\ bsm.instance
  /\ bsm.flushAll = "idle"
  /\ bsm' = FlushAllLoop(bsm)
  /\ UNCHANGED <<now, faults, abuseVars, capVars, epochPre, deadline, poolVars, deadlineCache, req>>

\* batchSettle step 1: every POST /verify of the batch has answered; vr is what
\* each answered.  With none valid, batchSettle returns failures at once
BatchVerifyDone ==
  /\ bsm.phase = "verify"
  /\ \E vr \in [Range(bsm.batch) -> {"valid"} \cup VerifyReasons] :
       LET V == {i \in Range(bsm.batch) : vr[i] = "valid"}
           validItems == ValidItems(bsm.batch, V)
           verify == [i \in ItemIds |-> IF i \in Range(bsm.batch) THEN vr[i] ELSE "none"]
       IN
       IF Len(validItems) = 0
       THEN FlushComplete([i \in ItemIds |-> Complete(AllInvalidResult)], verify, -1)
       ELSE /\ bsm' = [bsm EXCEPT !.phase = "settle", !.valid = validItems,
                                  !.validSet = V, !.verify = verify]
            /\ UNCHANGED <<req, cap>>
  /\ UNCHANGED <<now, faults, abuseVars, capStore, epochPre, deadline, poolVars, deadlineCache>>

\* batchSettle reads result.results[validIndex].success of an entry that the
\* answer does not have: a TypeError, caught by flush like any other error
UndefinedEntry ==
  [i \in ItemIds |-> Rejected(Msg("Cannot read properties of undefined", "success"))]

\* batchSettle step 2: POST /settle/batch has answered, with a non-2xx status
\* (batchSettle throws) or with a results array of up to one entry per posted
\* item
BatchSettleDone ==
  /\ bsm.phase = "settle"
  /\ \/ FlushComplete(TransportFailure(bsm.batch), bsm.verify, -1)
     \/ \E n \in 0..Len(bsm.valid) : \E results \in [1..n -> SettleResults] :
          IF \E i \in Range(bsm.valid) : IndexOf(bsm.valid, i) > Len(results)
          THEN FlushComplete(UndefinedEntry, bsm.verify, n)
          ELSE FlushComplete([i \in ItemIds |-> Complete(FinalResult(bsm, results, i))],
                             bsm.verify, n)
  /\ UNCHANGED <<now, faults, abuseVars, capStore, epochPre, deadline, poolVars, deadlineCache>>

\* cleanupStale: now - item.timestamp > maxAge
IsStaleInclusive(item, t) == t - item.ts >= StaleTicks

IsStale(item, t) == t - item.ts > StaleTicks

\* the 30 s sweep: batchSettleManagerInstance!.cleanupStale(120000) rejects and
\* drops the items older than maxAge, and returns how many it dropped
CleanupStale ==
  LET S == {bsm.queue[i].id : i \in {j \in 1..Len(bsm.queue) : IsStale(bsm.queue[j], now)}}
      outs == [i \in S \cap bsm.promises |-> Rejected(Msg("Request timeout", ""))]
  IN /\ bsm.instance
     /\ S # {}
     /\ bsm' = [bsm EXCEPT !.queue = Remove(@, S), !.promises = @ \ S,
                           !.done = Settled(outs, [i \in ItemIds |-> "none"]),
                           !.cleaned = Cardinality(S)]
     /\ Deliver(outs)
     /\ UNCHANGED <<now, faults, abuseVars, capStore, epochPre, deadline, poolVars, deadlineCache>>

\* some caller other than the mint handler enqueues an item
DirectEnqueue(id) ==
  /\ bsm.instance
  /\ id \notin Range(QueueIds(bsm.queue))
  /\ id \notin Range(bsm.batch)
  /\ id \in Procs => req[id].pc = "idle"
  /\ bsm' = BsmAdd([bsm EXCEPT !.done[id] = NotSettled, !.cleaned = 0], id)
  /\ UNCHANGED <<now, faults, abuseVars, capVars, epochPre, deadline, poolVars, deadlineCache, req>>

----------------------------------------------------------------------------
(* POST /mint: handleMintRequest, one action per await *)

\* checkCapacity(tokenAddress, recipients.length) is called.  The length was
\* validated at the start and is first used here, so its value is drawn here
MintCheckCall(r, rec) ==
  \E n \in 1..MaxRecipients :
    /\ req' = [req EXCEPT ![r] = [rec EXCEPT !.pc = "check", !.n = n]]
    /\ cap' = CheckBegin(r, n, "mint")

\* const difference = Number(deadline - now), the remaining seconds
Difference(deadlineT, nowT) == deadlineT - nowT

\* TokenDeadlineCache.isTokenExpired: return now > deadline
IsTokenExpired(nowT, deadlineT) == nowT > deadlineT

\* the handler from the deadline step on: the token has expired (the abuse
\* detector is asked about "<ip>:expired"), or the payment header is looked at
AfterDeadline(r, rec, known) ==
  IF known /\ Difference(deadline, now) <= 0
  THEN /\ \E ip \in ClientIps :
            rr' = RRBegin(r, CreateIdentifier(ExpiredSuffix(ip)), "expired")
       /\ req' = [req EXCEPT ![r] = [rec EXCEPT !.pc = "expired"]]
  ELSE /\ \E header \in {"none", "undecodable", "decoded"} :
            req' = [req EXCEPT ![r] =
                      IF header = "none"
                      THEN [Respond(rec, 402, "payment_required")
                              EXCEPT !.options = PaymentOptions(rec)]
                      ELSE IF header = "undecodable"
                           THEN Respond(rec, 400, "invalid_payment_format")
                           ELSE [rec EXCEPT !.pc = "verify", !.trace = <<"Admitted">>]]
       /\ UNCHANGED rr

\* a request arrives: the body is validated, then the deadline is looked up
MintStart(r) ==
  /\ req[r].pc \in {"idle", "responded"}
  /\ rr[r].pc = "idle" /\ cap[r].pc = "idle"
  /\ r \notin Range(QueueIds(bsm.queue)) /\ r \notin Range(bsm.batch)
  /\ \E tokenAddress \in BOOLEAN, length \in {0, 1, MaxRecipients, MaxRecipients + 1} :
       LET rec == ReqIdle IN
       IF ~tokenAddress
       THEN req' = [req EXCEPT ![r] = Respond(rec, 400, "missing_token")] /\ UNCHANGED rr
       ELSE IF length = 0 \/ length > MaxRecipients
            THEN req' = [req EXCEPT ![r] = Respond(rec, 400, "recipients")]
                 /\ UNCHANGED rr
            ELSE IF deadlineCache
                 THEN AfterDeadline(r, rec, TRUE)
                 ELSE req' = [req EXCEPT ![r] = [rec EXCEPT !.pc = "deadline"]]
                      /\ UNCHANGED rr
  /\ UNCHANGED <<now, faults, cnt, cntExp, banUntil, whitelist, admin, capVars, epochPre,
                 bsm, deadline, poolVars, deadlineCache>>

\* the chain read of deploymentDeadline() returns or fails (caught: "continue anyway")
MintDeadlineRead(r) ==
  /\ req[r].pc = "deadline"
  /\ \E ok \in BOOLEAN :
       /\ Charge(ok)
       /\ /\ deadlineCache' = (deadlineCache \/ ok)
          /\ AfterDeadline(r, req[r], ok)
  /\ UNCHANGED <<now, cnt, cntExp, banUntil, whitelist, admin, capVars, epochPre,
                 bsm, deadline, poolVars>>

\* recordRequest("<ip>:expired") returned: 410 either way
MintExpiredReturn(r) ==
  /\ req[r].pc = "expired"
  /\ rr[r].pc = "ret"
  /\ req' = [req EXCEPT ![r] = Respond(req[r], 410, IF rr[r].allowed THEN "remaining"
                                                     ELSE "minimal")]
  /\ rr' = [rr EXCEPT ![r] = RRIdle]
  /\ UNCHANGED <<now, faults, cnt, cntExp, banUntil, whitelist, admin, capVars, epochPre,
                 bsm, deadline, poolVars, deadlineCache>>

\* if (!verifyResult.isValid) ... : whether the verification lets the request on
VerifyPassesInvalidToo(v) == v \in {"valid", "invalid"}

VerifyPasses(v) == v = "valid"

\* withTimeout(verify(...)) settles: valid, invalid, or an error (a facilitator
\* error carrying reason mempool_capacity_exceeded, another error, the timeout).
\* skipRateLimit (which of the two routes was called) is first used here
MintVerifyDone(r) ==
  /\ req[r].pc = "verify"
  /\ \E v \in {"valid", "invalid", "mempool", "error"}, skipRateLimit \in BOOLEAN :
       IF VerifyPasses(v)
       THEN LET rec == [req[r] EXCEPT !.trace = Append(@, "Verified"), !.vres = v,
                                      !.skip = skipRateLimit] IN
            IF rec.skip
            THEN MintCheckCall(r, rec) /\ UNCHANGED rr
            ELSE /\ \E ip \in ClientIps : rr' = RRBegin(r, CreateIdentifier(ip), "rate")
                 /\ req' = [req EXCEPT ![r] = [rec EXCEPT !.pc = "rate"]]
                 /\ UNCHANGED cap
       ELSE /\ \E ip \in ClientIps : rr' = RRBegin(r, CreateIdentifier(ip), "verify")
            /\ req' = [req EXCEPT ![r].pc = "vfail", ![r].vres = v]
            /\ UNCHANGED cap
  /\ UNCHANGED <<now, faults, cnt, cntExp, banUntil, whitelist, admin, capStore, epochPre,
                 bsm, deadline, poolVars, deadlineCache>>

\* the status answered after a failed verification
VerifyFailStatus(v) == IF v = "error" THEN 500 ELSE 402

\* recordRequest returned after a failed verification: its result is not looked at
MintVerifyFailReturn(r) ==
  /\ req[r].pc = "vfail"
  /\ rr[r].pc = "ret"
  /\ req' = [req EXCEPT ![r] = Respond(req[r], VerifyFailStatus(req[r].vres),
                                       "verification_failed")]
  /\ rr' = [rr EXCEPT ![r] = RRIdle]
  /\ UNCHANGED <<now, faults, cnt, cntExp, banUntil, whitelist, admin, capVars, epochPre,
                 bsm, deadline, poolVars, deadlineCache>>

\* the response to a rate-limit denial
RateLimitResponse(rec) ==
  [Respond(rec, 429, "too_many_requests") EXCEPT !.retryAfter = RetryAfterSeconds]

\* recordRequest returned at the rate-limit step
MintRateReturn(r) ==
  /\ req[r].pc = "rate"
  /\ rr[r].pc = "ret"
  /\ IF rr[r].allowed
     THEN MintCheckCall(r, [req[r] EXCEPT !.trace = Append(@, "RateLimited")])
     ELSE req' = [req EXCEPT ![r] = RateLimitResponse(req[r])] /\ UNCHANGED cap
  /\ rr' = [rr EXCEPT ![r] = RRIdle]
  /\ UNCHANGED <<now, faults, cnt, cntExp, banUntil, whitelist, admin, capStore, epochPre,
                 bsm, deadline, poolVars, deadlineCache>>

\* the response to a CAPACITY_EXCEEDED rejection: available = capacityInfo.availableSlots
CapacityExceededResponse(rec, capacityInfo) ==
  [Respond(rec, 429, "capacity_exceeded") EXCEPT !.avail = capacityInfo.avail]

\* reserveCapacity(tokenAddress, recipients.length) is called.  When no other
\* request holds a reservation, a new batch of callers begins here
MintReserveCall(r, rec) ==
  /\ req' = [req EXCEPT ![r] = [rec EXCEPT !.pc = "reserve",
                                           !.trace = Append(@, "CapacityChecked")]]
  /\ cap' = ReserveBegin(r, rec.n, "mint")
  /\ IF \E q \in Procs : InFlight(q)
     THEN UNCHANGED <<epochPre, capFault>>
     ELSE epochPre' = PendValue /\ capFault' = FALSE

\* checkCapacity returned or threw; on success reserveCapacity is called
MintCheckReturn(r) ==
  /\ req[r].pc = "check"
  /\ cap[r].pc = "checkret"
  /\ IF cap[r].result = "ok"
     THEN MintReserveCall(r, req[r])
     ELSE /\ req' = [req EXCEPT ![r] =
                       IF cap[r].result = "exceeded"
                       THEN CapacityExceededResponse(req[r], cap[r])
                       ELSE Respond(req[r], 503, "capacity_check_failed")]
          /\ cap' = [cap EXCEPT ![r] = CapIdle]
          /\ UNCHANGED <<epochPre, capFault>>
  /\ UNCHANGED <<now, faults, abuseVars, pend, pendExists, pendExp, chainMint, maxCache,
                 mintCache, bsm, deadline, poolVars, deadlineCache>>

\* reserveCapacity returned (incrementPending swallows its errors, so it never
\* throws): capacityReserved = true, and the payment is put on the settle queue
MintReserveReturn(r) ==
  /\ req[r].pc = "reserve"
  /\ cap[r].pc = "resret"
  /\ req' = [req EXCEPT ![r].pc = "settle", ![r].reserved = TRUE,
                        ![r].trace = Append(@, "CapacityReserved")]
  /\ cap' = [cap EXCEPT ![r] = CapIdle]
  /\ bsm' = BsmAdd(bsm, r)
  /\ UNCHANGED <<now, faults, abuseVars, capStore, epochPre, deadline, poolVars, deadlineCache>>

\* the 3 minute timer of withTimeout wins the race: the handler stops waiting
MintSettleTimeout(r) ==
  /\ req[r].pc = "settle"
  /\ Deliver([i \in {r} |-> TimedOut])
  /\ UNCHANGED <<now, faults, abuseVars, capStore, epochPre, bsm, deadline, poolVars, deadlineCache>>

\* releaseCapacity returned: the response chosen by the settle outcome is sent
MintReleaseReturn(r) ==
  /\ req[r].pc = "release"
  /\ cap[r].pc = "relret"
  /\ LET rec == [req[r] EXCEPT !.trace = Append(@, "Released")]
         answer == SettleResponse(rec.sres, rec.reason)
     IN req' = [req EXCEPT ![r] =
                  Respond([rec EXCEPT !.trace = IF answer.status = 200
                                                THEN Append(@, "Done") ELSE @],
                          answer.status, answer.body)]
  /\ cap' = [cap EXCEPT ![r] = CapIdle]
  /\ UNCHANGED <<now, faults, abuseVars, capStore, epochPre, bsm, deadline, poolVars, deadlineCache>>

MintStep(r) ==
  \/ MintStart(r)
  \/ MintDeadlineRead(r)
  \/ MintExpiredReturn(r)
  \/ MintVerifyDone(r)
  \/ MintVerifyFailReturn(r)
  \/ MintRateReturn(r)
  \/ MintCheckReturn(r)
  \/ MintReserveReturn(r)
  \/ MintSettleTimeout(r)
  \/ MintReleaseReturn(r)

----------------------------------------------------------------------------
(* GET /api/capacity/:tokenAddress *)

\* the handler from the deadline step on: 410 for an expired token after one
\* recordRequest("<ip>:expired"), else getCapacityStatus starts its three reads
AfterCapacityDeadline(r, known) ==
  IF known /\ Difference(deadline, now) <= 0
  THEN /\ \E ip \in ClientIps :
            rr' = RRBegin(r, CreateIdentifier(ExpiredSuffix(ip)), "expired")
       /\ req' = [req EXCEPT ![r] = [ReqIdle EXCEPT !.pc = "cexpired"]]
       /\ UNCHANGED cap
  ELSE /\ req' = [req EXCEPT ![r] = [ReqIdle EXCEPT !.pc = "cstatus"]]
       /\ cap' = CheckBegin(r, 0, "status")
       /\ UNCHANGED rr

\* a request arrives: the address is validated, then the deadline is looked up
CapacityStart(r) ==
  /\ req[r].pc \in {"idle", "responded"}
  /\ rr[r].pc = "idle" /\ cap[r].pc = "idle"
  /\ r \notin Range(QueueIds(bsm.queue)) /\ r \notin Range(bsm.batch)
  /\ \E tokenAddress \in BOOLEAN :
       IF ~tokenAddress
       THEN /\ req' = [req EXCEPT ![r] = Respond(ReqIdle, 400, "invalid_token_address")]
            /\ UNCHANGED <<rr, cap>>
       ELSE IF deadlineCache
            THEN AfterCapacityDeadline(r, TRUE)
            ELSE /\ req' = [req EXCEPT ![r] = [ReqIdle EXCEPT !.pc = "cdeadline"]]
                 /\ UNCHANGED <<rr, cap>>
  /\ UNCHANGED <<now, faults, cnt, cntExp, banUntil, whitelist, admin, capStore, epochPre,
                 bsm, deadline, poolVars, deadlineCache>>

\* the chain read of deploymentDeadline() returns or fails (caught: the
\* handler continues to the capacity query)
CapacityDeadlineRead(r) ==
  /\ req[r].pc = "cdeadline"
  /\ \E ok \in BOOLEAN :
       /\ Charge(ok)
       /\ deadlineCache' = (deadlineCache \/ ok)
       /\ AfterCapacityDeadline(r, ok)
  /\ UNCHANGED <<now, cnt, cntExp, banUntil, whitelist, admin, capStore, epochPre,
                 bsm, deadline, poolVars>>

\* recordRequest("<ip>:expired") returned: 410 with the minimal body, whatever it said
CapacityExpiredReturn(r) ==
  /\ req[r].pc = "cexpired"
  /\ rr[r].pc = "ret"
  /\ req' = [req EXCEPT ![r] = Respond(req[r], 410, "minimal")]
  /\ rr' = [rr EXCEPT ![r] = RRIdle]
  /\ UNCHANGED <<now, faults, cnt, cntExp, banUntil, whitelist, admin, capVars, epochPre,
                 bsm, deadline, poolVars, deadlineCache>>

\* getCapacityStatus returned or threw: 200 with the capacity, or 500
CapacityStatusReturn(r) ==
  /\ req[r].pc = "cstatus"
  /\ cap[r].pc = "checkret"
  /\ req' = [req EXCEPT ![r] =
               IF cap[r].result = "error"
               THEN Respond(req[r], 500, "capacity_query_failed")
               ELSE [Respond(req[r], 200, "capacity") EXCEPT !.avail = cap[r].avail]]
  /\ cap' = [cap EXCEPT ![r] = CapIdle]
  /\ UNCHANGED <<now, faults, abuseVars, capStore, epochPre, bsm, deadline, poolVars, deadlineCache>>

CapacityStep(r) ==
  \/ CapacityStart(r)
  \/ CapacityDeadlineRead(r)
  \/ CapacityExpiredReturn(r)
  \/ CapacityStatusReturn(r)

----------------------------------------------------------------------------
(* RedisConnectionPool *)

\* the server listens; no termination signal yet.  hardExit is when the
\* forced-exit timer is due (0: not armed), code the exit code (-1: running)
ServerInit == [pc |-> "listening", hardExit |-> 0, code |-> -1]

\* the pool once initializePool has connected its min connections
PoolInit == [connections |-> [i \in 1..PoolMin |-> i],
             availableConnections |-> [i \in 1..PoolMin |-> i],
             waitingQueue |-> <<>>,
             connectionsInUse |-> {},
             ready |-> 1..PoolMin,
             connecting |-> {},
             closing |-> {},
             nextConnectionId |-> PoolMin + 1,
             \* connectionLastUsed, 0 where the map has no entry
             lastUsed |-> [c \in ConnIds |-> 0],
             isShuttingDown |-> FALSE,
             \* when the health-check interval fires next, 0 once cleared
             healthDue |-> HealthCheckTicks]

\* res is what the last execute() of the caller ended with: "value" (fn
\* returned), "error" (fn threw) or "null" (no connection was acquired)
AcqIdle == [pc |-> "idle", conn |-> 0, timer |-> "none", due |-> 0, res |-> "none"]

\* acquire() resolved with null: execute() returns null to its caller
\* (if (!connection) return null)
AcquiredNull == [AcqIdle EXCEPT !.pc = "null", !.res = "null"]

\* the functions of an acquire() that waits: the promise's resolve, and the
\* arrow function around it that acquire() pushes to waitingQueue
Waiter(p, fn) == [caller |-> p, fn |-> fn]

\* Array.prototype.indexOf, from 1; 0 stands for -1
WaitingIndexOf(queue, w) ==
  IF \E i \in 1..Len(queue) : queue[i] = w
  THEN CHOOSE i \in 1..Len(queue) : queue[i] = w /\ \A j \in 1..(i - 1) : queue[j] # w
  ELSE 0

Without(s, x) == SelectSeq(s, LAMBDA y : y # x)

\* removeConnection(connection): out of both lists and the in-use set, then disconnected
RemoveConnection(pl, c) ==
  [pl EXCEPT !.connections = Without(pl.connections, c),
             !.availableConnections = Without(pl.availableConnections, c),
             !.connectionsInUse = pl.connectionsInUse \ {c},
             !.lastUsed[c] = 0,
             !.ready = pl.ready \ {c}]

\* createConnection after redis.connect() has returned
Connected(pl, c) ==
  [pl EXCEPT !.connections = Append(pl.connections, c),
             !.availableConnections = Append(pl.availableConnections, c),
             !.lastUsed[c] = now,
             !.ready = pl.ready \cup {c}]

\* a pop that hands out the last free connection and leaves it in the free list
PopReadyKeep(pl) ==
  LET n == Len(pl.availableConnections) IN
  [pool |-> pl, conn |-> IF n = 0 THEN 0 ELSE pl.availableConnections[n]]

\* acquire()'s loop: pop the free list until a ready connection comes up,
\* removing the ones that are not ready
RECURSIVE PopReady(_)
PopReady(pl) ==
  LET n == Len(pl.availableConnections) IN
  IF n = 0 THEN [pool |-> pl, conn |-> 0]
  ELSE LET c == pl.availableConnections[n]
           rest == [pl EXCEPT !.availableConnections = SubSeq(pl.availableConnections, 1, n - 1)]
       IN IF c \in pl.ready THEN [pool |-> rest, conn |-> c]
          ELSE PopReady(RemoveConnection(rest, c))

\* acquire() ends up waiting: the timer is armed, then the arrow function
\* around resolve is pushed to waitingQueue
AcquireWait(p, pl) ==
  /\ pool' = [pl EXCEPT !.waitingQueue = Append(pl.waitingQueue, Waiter(p, "wrapper"))]
  /\ acq' = [acq EXCEPT ![p] = [AcqIdle EXCEPT !.pc = "wait", !.timer = "armed",
                                                !.due = now + AcquireTimeoutTicks]]

\* acquire() from the pop of the free list on: ping the connection popped
\* (first await), or create one while connections.length < max (the id is
\* taken, then redis.connect() is awaited), or wait
AcquireFrom(p, pl) ==
  LET r == PopReady(pl) IN
  IF r.conn # 0
  THEN /\ pool' = r.pool
       /\ acq' = [acq EXCEPT ![p] = [AcqIdle EXCEPT !.pc = "ping", !.conn = r.conn]]
  ELSE IF Len(r.pool.connections) < PoolMax
       THEN /\ pool' = [r.pool EXCEPT !.nextConnectionId = @ + 1]
            /\ acq' = [acq EXCEPT ![p] = [AcqIdle EXCEPT !.pc = "create",
                                                         !.conn = r.pool.nextConnectionId]]
       ELSE AcquireWait(p, r.pool)

\* a caller invokes acquire()
PoolAcquire(p) ==
  /\ acq[p].pc \in {"idle", "null"}
  /\ pool.nextConnectionId <= MaxConnId
  /\ IF pool.isShuttingDown
     THEN /\ acq' = [acq EXCEPT ![p] = AcquiredNull]
          /\ UNCHANGED pool
     ELSE AcquireFrom(p, pool)
  /\ UNCHANGED <<now, faults, server, nonPoolVars>>

\* connection.ping() returns or fails (a closed connection fails it)
PoolPing(p) ==
  /\ acq[p].pc = "ping"
  /\ pool.nextConnectionId <= MaxConnId
  /\ \E ok \in BOOLEAN :
       /\ ok => acq[p].conn \in pool.ready
       /\ Charge(ok \/ acq[p].conn \notin pool.ready)
       /\ IF ok
          THEN /\ pool' = [pool EXCEPT !.connectionsInUse = @ \cup {acq[p].conn},
                                       !.lastUsed[acq[p].conn] = now]
               /\ acq' = [acq EXCEPT ![p].pc = "held"]
          ELSE AcquireFrom(p, RemoveConnection(pool, acq[p].conn))
  /\ UNCHANGED <<now, server, nonPoolVars>>

\* createConnection: redis.connect() returns or fails; a failure is caught
\* by acquire(), which goes on to wait
PoolCreateDone(p) ==
  /\ acq[p].pc = "create"
  /\ \E ok \in BOOLEAN :
       /\ Charge(ok)
       /\ IF ok
          THEN /\ pool' = Connected(pool, acq[p].conn)
               /\ acq' = [acq EXCEPT ![p] = [AcqIdle EXCEPT !.pc = "created"]]
          ELSE AcquireWait(p, pool)
  /\ UNCHANGED <<now, server, nonPoolVars>>

\* acquire() resumes after createConnection: it pops the free list and
\* returns what it gets, or waits
PoolAfterCreate(p) ==
  /\ acq[p].pc = "created"
  /\ LET n == Len(pool.availableConnections) IN
     IF n > 0
     THEN /\ pool' = [pool EXCEPT
                        !.availableConnections = SubSeq(pool.availableConnections, 1, n - 1),
                        !.connectionsInUse = @ \cup {pool.availableConnections[n]},
                        !.lastUsed[pool.availableConnections[n]] = now]
          /\ acq' = [acq EXCEPT ![p] = [AcqIdle EXCEPT !.pc = "held",
                                          !.conn = pool.availableConnections[n]]]
     ELSE AcquireWait(p, pool)
  /\ UNCHANGED <<now, faults, server, nonPoolVars>>

\* the timer of a waiting acquire() fires: it looks for resolve in
\* waitingQueue and, when found, splices it out and resolves with null
PoolAcquireTimeout(p) ==
  /\ acq[p].timer = "armed"
  /\ now >= acq[p].due
  /\ LET index == WaitingIndexOf(pool.waitingQueue, Waiter(p, "resolve")) IN
     IF index # 0
     THEN /\ pool' = [pool EXCEPT !.waitingQueue =
                        SubSeq(@, 1, index - 1) \o SubSeq(@, index + 1, Len(@))]
          /\ acq' = [acq EXCEPT ![p] = [AcquiredNull EXCEPT !.timer = "fired"]]
     ELSE /\ acq' = [acq EXCEPT ![p].timer = "fired"]
          /\ UNCHANGED pool
  /\ UNCHANGED <<now, faults, server, nonPoolVars>>

\* execute(): fn(connection) has returned or thrown, and the finally block
\* calls release(connection).  release does nothing when the connection is
\* not in use; a ready connection goes to the first function of waitingQueue
\* (which clears its timer and resolves), else to the free list; a connection
\* that is not ready, or any connection during shutdown, is removed and,
\* below min, replaced
PoolRelease(p) ==
  /\ acq[p].pc = "held"
  /\ pool.nextConnectionId <= MaxConnId
  /\ \E ok \in BOOLEAN :
       /\ Charge(ok)
       /\ LET c == acq[p].conn
              free == [pool EXCEPT !.connectionsInUse = @ \ {c}]
              ended == [AcqIdle EXCEPT !.res = IF ok THEN "value" ELSE "error"]
          IN
          IF c \notin pool.connectionsInUse
          THEN /\ acq' = [acq EXCEPT ![p] = ended]
               /\ UNCHANGED pool
          ELSE IF c \in pool.ready /\ ~pool.isShuttingDown
          THEN IF pool.waitingQueue # <<>>
               THEN LET w == Head(pool.waitingQueue).caller IN
                    /\ pool' = [pool EXCEPT !.waitingQueue = Tail(@),
                                            !.lastUsed[c] = now]
                    /\ acq' = [acq EXCEPT ![p] = ended,
                                          ![w] = [AcqIdle EXCEPT
                                                    !.pc = "held", !.conn = c,
                                                    !.timer = IF acq[w].timer = "armed"
                                                              THEN "cleared"
                                                              ELSE acq[w].timer]]
               ELSE /\ pool' = [free EXCEPT !.availableConnections = Append(@, c)]
                    /\ acq' = [acq EXCEPT ![p] = ended]
          ELSE LET gone == RemoveConnection(free, c) IN
               /\ pool' = IF ~pool.isShuttingDown /\ Len(gone.connections) < PoolMin
                          THEN [gone EXCEPT !.connecting = @ \cup {gone.nextConnectionId},
                                            !.nextConnectionId = @ + 1]
                          ELSE gone
               /\ acq' = [acq EXCEPT ![p] = ended]
  /\ UNCHANGED <<now, server, nonPoolVars>>

\* the createConnection started by release(): redis.connect() returns or fails
BackgroundConnect(c) ==
  /\ c \in pool.connecting
  /\ \E ok \in BOOLEAN :
       /\ Charge(ok)
       /\ pool' = IF ok THEN Connected([pool EXCEPT !.connecting = @ \ {c}], c)
                  ELSE [pool EXCEPT !.connecting = @ \ {c}]
  /\ UNCHANGED <<now, acq, server, nonPoolVars>>

\* a connection is lost: its status leaves 'ready' and the 'close' event is due
ConnectionClose(c) ==
  /\ c \in pool.ready
  /\ Charge(FALSE)
  /\ pool' = [pool EXCEPT !.ready = @ \ {c}, !.closing = @ \cup {c}]
  /\ UNCHANGED <<now, acq, server, nonPoolVars>>

\* redis.on('close'): removeConnection(redis)
OnClose(c) ==
  /\ c \in pool.closing
  /\ pool' = [RemoveConnection(pool, c) EXCEPT !.closing = @ \ {c}]
  /\ UNCHANGED <<now, faults, acq, server, nonPoolVars>>

\* redis.on('error'): handleConnectionError takes the connection out of the
\* free list; an error whose message names ECONNRESET, ECONNREFUSED or
\* 'Connection is closed' also removes it
OnError(c) ==
  /\ c \in Range(pool.connections)
  /\ Charge(FALSE)
  /\ \E fatal \in BOOLEAN :
       pool' = IF fatal THEN RemoveConnection(pool, c)
               ELSE [pool EXCEPT !.availableConnections = Without(@, c)]
  /\ UNCHANGED <<now, acq, server, nonPoolVars>>

\* the health-check interval fires: the free connections idle for longer than
\* idleTimeout are collected while connections.length > min (the length is
\* that before any removal), then removed; below min one connection is
\* created.  The ping of availableConnections[0] that follows changes nothing
HealthCheck ==
  /\ pool.healthDue # 0 /\ now >= pool.healthDue
  /\ pool.nextConnectionId <= MaxConnId
  /\ LET idleConnections ==
           {c \in Range(pool.availableConnections) :
              /\ now - pool.lastUsed[c] > IdleTimeoutTicks
              /\ Len(pool.connections) > PoolMin}
         kept == [pool EXCEPT
                    !.connections = SelectSeq(@, LAMBDA c : c \notin idleConnections),
                    !.availableConnections = SelectSeq(@, LAMBDA c : c \notin idleConnections),
                    !.connectionsInUse = @ \ idleConnections,
                    !.lastUsed = [c \in ConnIds |-> IF c \in idleConnections THEN 0 ELSE @[c]],
                    !.ready = @ \ idleConnections,
                    !.healthDue = @ + HealthCheckTicks]
     IN pool' = IF Len(kept.connections) < PoolMin /\ ~pool.isShuttingDown
                THEN [kept EXCEPT !.connecting = @ \cup {kept.nextConnectionId},
                                  !.nextConnectionId = @ + 1]
                ELSE kept
  /\ UNCHANGED <<now, faults, acq, server, nonPoolVars>>

\* gracefulShutdown, once shutdownBatchSettleManager has returned:
\* RedisConnectionManager.disconnect() calls shutdown() of the pool, which
\* sets isShuttingDown, clears the health check, resolves every waiter with
\* null and sends QUIT on every connection
GracefulDisconnect ==
  /\ bsm.flushAll = "done"
  /\ server.pc = "listening"
  /\ ~pool.isShuttingDown
  /\ pool' = [pool EXCEPT !.isShuttingDown = TRUE,
                          !.healthDue = 0,
                          !.waitingQueue = <<>>,
                          !.ready = @ \ Range(pool.connections),
                          !.closing = @ \cup Range(pool.connections)]
  /\ acq' = [p \in Procs |->
              IF \E i \in 1..Len(pool.waitingQueue) : pool.waitingQueue[i].caller = p
              THEN [AcquiredNull EXCEPT !.timer = IF acq[p].timer = "armed"
                                                 THEN "cleared" ELSE acq[p].timer]
              ELSE acq[p]]
  /\ UNCHANGED <<now, faults, server, nonPoolVars>>

\* every QUIT has settled: shutdown() empties both lists and returns, and
\* gracefulShutdown calls server.close(callback) and arms the forced exit
GracefulClose ==
  /\ pool.isShuttingDown
  /\ server.pc = "listening"
  /\ pool' = [pool EXCEPT !.connections = <<>>, !.availableConnections = <<>>]
  /\ server' = [server EXCEPT !.pc = "closing", !.hardExit = now + HardExitTicks]
  /\ UNCHANGED <<now, faults, acq, nonPoolVars>>

\* the callback of server.close: the listener and every connection have
\* closed, process.exit(0)
ServerClosed ==
  /\ server.pc = "closing"
  /\ server' = [pc |-> "exited", hardExit |-> 0, code |-> 0]
  /\ UNCHANGED <<now, faults, pool, acq, nonPoolVars>>

\* the forced-exit timer fires: process.exit(1)
HardExit ==
  /\ server.pc # "exited"
  /\ server.hardExit # 0 /\ now >= server.hardExit
  /\ server' = [pc |-> "exited", hardExit |-> 0, code |-> 1]
  /\ UNCHANGED <<now, faults, pool, acq, nonPoolVars>>

----------------------------------------------------------------------------
(* The payment-request store and submitAuthorization *)

\* an activation of submitAuthorization: the authorization's nonce, whether
\* its to/value match the request, whether its time window is valid and its
\* signature good, the request found, the transaction hash, the result
SubIdle == [pc |-> "idle", nonce |-> 0, id |-> 0, matches |-> FALSE,
            windowOk |-> FALSE, sigOk |-> FALSE, hash |-> 0, result |-> "none"]

\* paymentRequests and fulfilledPayments are empty at start; used is the
\* token's authorizationState per nonce; history: submitted counts the
\* transferWithAuthorization transactions sent per nonce
PayInit == [requests |-> [id \in PayIds |-> [exists |-> FALSE, fulfilled |-> FALSE,
                                             txHash |-> 0]],
            fulfilledPayments |-> [h \in Procs |-> 0],
            used |-> [n \in PayIds |-> FALSE],
            submitted |-> [n \in PayIds |-> 0],
            sub |-> [p \in Procs |-> SubIdle]]

\* return {success: false, error}
SubmitFails(p, error) ==
  pay' = [pay EXCEPT !.sub[p].pc = "ret", !.sub[p].result = error]

\* createPaymentRequest: a new request under a fresh id with a fresh nonce
\* (the request of id i carries nonce i)
CreatePaymentRequest(id) ==
  /\ ~pay.requests[id].exists
  /\ pay' = [pay EXCEPT !.requests[id].exists = TRUE]
  /\ UNCHANGED <<now, faults, abuseVars, capVars, mintVars, pool, acq, server>>

\* submitAuthorization is called: steps 1 to 3 run to the first await.  The
\* request is looked up by nonce among those not fulfilled, the
\* authorization is compared with it, and its time window is checked
SubmitBegin(p) ==
  /\ pay.sub[p].pc = "idle"
  /\ \E nonce \in PayIds, matches \in BOOLEAN, windowOk \in BOOLEAN, sigOk \in BOOLEAN :
       LET found == {id \in PayIds : /\ pay.requests[id].exists
                                     /\ id = nonce
                                     /\ ~pay.requests[id].fulfilled}
           a == [SubIdle EXCEPT !.nonce = nonce, !.matches = matches,
                                !.windowOk = windowOk, !.sigOk = sigOk]
       IN pay' = [pay EXCEPT !.sub[p] =
                    IF found = {} THEN [a EXCEPT !.pc = "ret", !.result = "not_found"]
                    ELSE IF ~matches THEN [a EXCEPT !.pc = "ret", !.result = "mismatch"]
                    ELSE IF ~windowOk THEN [a EXCEPT !.pc = "ret", !.result = "window"]
                    ELSE [a EXCEPT !.pc = "name", !.id = CHOOSE id \in found : TRUE]]
  /\ UNCHANGED <<now, faults, abuseVars, capVars, mintVars, pool, acq, server>>

\* step 4: readContract name() returns, or throws into the catch block
SubmitName(p) ==
  /\ pay.sub[p].pc = "name"
  /\ \E ok \in BOOLEAN :
       /\ Charge(ok)
       /\ IF ok THEN pay' = [pay EXCEPT !.sub[p].pc = "verify"]
          ELSE SubmitFails(p, "exception")
  /\ UNCHANGED <<now, abuseVars, capVars, mintVars, pool, acq, server>>

\* step 5: verifyTransferWithAuthorization returns isValid
SubmitVerify(p) ==
  /\ pay.sub[p].pc = "verify"
  /\ IF pay.sub[p].sigOk THEN pay' = [pay EXCEPT !.sub[p].pc = "state"]
     ELSE SubmitFails(p, "signature")
  /\ UNCHANGED <<now, faults, abuseVars, capVars, mintVars, pool, acq, server>>

\* step 6: readContract authorizationState(from, nonce) returns
SubmitState(p) ==
  /\ pay.sub[p].pc = "state"
  /\ \E ok \in BOOLEAN :
       /\ Charge(ok)
       /\ IF ~ok THEN SubmitFails(p, "exception")
          ELSE IF pay.used[pay.sub[p].nonce] THEN SubmitFails(p, "nonce_used")
          ELSE pay' = [pay EXCEPT !.sub[p].pc = "write"]
  /\ UNCHANGED <<now, abuseVars, capVars, mintVars, pool, acq, server>>

\* step 7: writeContract transferWithAuthorization sends the transaction and
\* returns its hash, or throws
SubmitWrite(p) ==
  /\ pay.sub[p].pc = "write"
  /\ pay.submitted[pay.sub[p].nonce] < MaxSubmitted
  /\ \E ok \in BOOLEAN :
       /\ Charge(ok)
       /\ IF ok
          THEN pay' = [pay EXCEPT !.sub[p].pc = "receipt", !.sub[p].hash = p,
                                  !.submitted[pay.sub[p].nonce] = @ + 1]
          ELSE SubmitFails(p, "exception")
  /\ UNCHANGED <<now, abuseVars, capVars, mintVars, pool, acq, server>>

\* step 8 and 9: the transaction is mined (it reverts when the nonce was
\* used by an earlier one) and waitForTransactionReceipt returns; on success
\* the request is marked fulfilled and filed under the hash
SubmitReceipt(p) ==
  /\ pay.sub[p].pc = "receipt"
  /\ LET a == pay.sub[p] IN
     IF pay.used[a.nonce]
     THEN SubmitFails(p, "tx_failed")
     ELSE pay' = [pay EXCEPT !.used[a.nonce] = TRUE,
                             !.requests[a.id].fulfilled = TRUE,
                             !.requests[a.id].txHash = a.hash,
                             !.fulfilledPayments[a.hash] = a.id,
                             !.sub[p].pc = "ret", !.sub[p].result = "ok"]
  /\ UNCHANGED <<now, faults, abuseVars, capVars, mintVars, pool, acq, server>>

\* the caller has its result
SubmitReturn(p) ==
  /\ pay.sub[p].pc = "ret"
  /\ pay' = [pay EXCEPT !.sub[p] = SubIdle]
  /\ UNCHANGED <<now, faults, abuseVars, capVars, mintVars, pool, acq, server>>

----------------------------------------------------------------------------
(* Time *)

CountExpired(k, t) == cnt[k] > 0 /\ cntExp[k] # 0 /\ cntExp[k] <= t

\* the clock advances one tick; keys whose TTL has run out disappear
Tick ==
  /\ now < MaxTime
  /\ ~(bsm.timer.set /\ bsm.timer.due <= now)
  /\ now' = now + 1
  /\ UNCHANGED faults
  /\ cnt' = [k \in Strings |-> IF CountExpired(k, now + 1) THEN 0 ELSE cnt[k]]
  /\ cntExp' = [k \in Strings |-> IF CountExpired(k, now + 1) THEN 0 ELSE cntExp[k]]
  /\ banUntil' = [k \in Strings |-> IF banUntil[k] <= now + 1 THEN 0 ELSE banUntil[k]]
  /\ LET gone == pendExists /\ pendExp # 0 /\ pendExp <= now + 1 IN
       /\ pend' = IF gone THEN 0 ELSE pend
       /\ pendExists' = (pendExists /\ ~gone)
       /\ pendExp' = IF gone THEN 0 ELSE pendExp
       /\ capFault' = (capFault \/ gone)
  /\ UNCHANGED <<whitelist, admin, rr, chainMint, maxCache, mintCache, cap, mintVars, poolVars>>

----------------------------------------------------------------------------
(* Callers other than a whole mint request *)

\* some other caller invokes reserveCapacity(token, n)
DirectReserve(p, n) ==
  /\ req[p].pc = "idle"
  /\ cap[p].pc = "idle"
  /\ cap' = ReserveBegin(p, n, "direct")
  /\ UNCHANGED <<now, faults, pend, pendExists, pendExp, chainMint, maxCache, mintCache, capFault, nonCapVars>>

\* ... and follows it with the matching releaseCapacity(token, n)
DirectRelease(p) ==
  /\ cap[p].pc = "resret"
  /\ cap[p].site = "direct"
  /\ cap' = ReleaseBegin(p, cap[p].n, "direct")
  /\ UNCHANGED <<now, faults, pend, pendExists, pendExp, chainMint, maxCache, mintCache, capFault, nonCapVars>>

DirectCapReturn(p) ==
  /\ cap[p].pc = "relret"
  /\ cap[p].site = "direct"
  /\ cap' = [cap EXCEPT ![p] = CapIdle]
  /\ UNCHANGED <<now, faults, pend, pendExists, pendExp, chainMint, maxCache, mintCache, capFault, nonCapVars>>

\* a request on the public route, its payment verified, reaches the rate-limit step
RateArrive(r) ==
  /\ req[r].pc \in {"idle", "responded"}
  /\ rr[r].pc = "idle" /\ cap[r].pc = "idle"
  /\ \E ip \in ClientIps : rr' = RRBegin(r, CreateIdentifier(ip), "rate")
  /\ req' = [req EXCEPT ![r] = [ReqIdle EXCEPT !.pc = "rate", !.vres = "valid",
                                               !.trace = <<"Admitted", "Verified">>]]
  /\ UNCHANGED <<now, faults, cnt, cntExp, banUntil, whitelist, admin, capVars, epochPre,
                 bsm, deadline, poolVars, deadlineCache>>

\* a request that passed the steps before it reaches the capacity check
CheckArrive(r) ==
  /\ req[r].pc \in {"idle", "responded"}
  /\ rr[r].pc = "idle" /\ cap[r].pc = "idle"
  /\ r \notin Range(QueueIds(bsm.queue)) /\ r \notin Range(bsm.batch)
  /\ MintCheckCall(r, [ReqIdle EXCEPT !.vres = "valid",
                                     !.trace = <<"Admitted", "Verified", "RateLimited">>])
  /\ UNCHANGED <<now, faults, abuseVars, capStore, epochPre, bsm, deadline, poolVars, deadlineCache>>

\* a request whose capacity check succeeded reaches the reservation
ReserveArrive(r, n) ==
  /\ req[r].pc \in {"idle", "responded"}
  /\ rr[r].pc = "idle" /\ cap[r].pc = "idle"
  /\ r \notin Range(QueueIds(bsm.queue)) /\ r \notin Range(bsm.batch)
  /\ MintReserveCall(r, [ReqIdle EXCEPT !.n = n, !.vres = "valid",
                                        !.trace = <<"Admitted", "Verified", "RateLimited">>])
  /\ UNCHANGED <<now, faults, abuseVars, pend, pendExists, pendExp, chainMint, maxCache,
                 mintCache, bsm, deadline, poolVars, deadlineCache>>

\* a request that got as far as stage is followed no further
Depart(r, stage) ==
  /\ req[r].pc = stage
  /\ req' = [req EXCEPT ![r] = ReqIdle]
  /\ cap' = [cap EXCEPT ![r] = CapIdle]
  /\ UNCHANGED <<now, faults, abuseVars, capStore, epochPre, bsm, deadline, poolVars, deadlineCache>>

----------------------------------------------------------------------------

Init ==
  /\ now = 0
  /\ faults = 0
  /\ cnt = [k \in Strings |-> 0]
  /\ cntExp = [k \in Strings |-> 0]
  /\ banUntil = [k \in Strings |-> 0]
  /\ whitelist = {}
  /\ rr = [p \in Procs |-> RRIdle]
  /\ admin = AdminNone
  /\ pend = 0
  /\ pendExists = FALSE
  /\ pendExp = 0
  /\ chainMint = 0
  /\ maxCache = [set |-> FALSE, value |-> 0]
  /\ mintCache = [set |-> FALSE, value |-> 0, fetchedAt |-> 0]
  /\ cap = [p \in Procs |-> CapIdle]
  /\ capFault = FALSE
  /\ epochPre = 0
  /\ bsm = BsmInit
  /\ deadline \in DeadlineChoices
  /\ deadlineCache = FALSE
  /\ req = [p \in Procs |-> ReqIdle]
  /\ pool = PoolInit
  /\ acq = [p \in Procs |-> AcqIdle]
  /\ server = ServerInit
  /\ pay = PayInit

\* the callers that run whole mint requests, and the callers that only hold capacity
Handlers == {1}
Holders == Procs \ Handlers

\* the rate-limit step of concurrent requests, and the whitelist administration
NextAbuse ==
  \/ \E r \in Procs : RateArrive(r)
  \/ \E p \in Procs : RecordRequestStep(p)
  \/ \E r \in Procs : MintRateReturn(r)
  \/ \E r \in Procs : Depart(r, "check")
  \/ \E s \in ClientIps : AddToWhitelist(s)
  \/ \E s \in ClientIps : RemoveFromWhitelist(s)
  \/ Tick

SpecAbuse == Init /\ [][NextAbuse]_vars

\* the rate-limit step of concurrent requests under the /api/abuse endpoints
NextAdmin ==
  \/ \E r \in Handlers : RateArrive(r)
  \/ \E p \in Handlers : RecordRequestStep(p)
  \/ \E r \in Handlers : MintRateReturn(r)
  \/ \E r \in Handlers : Depart(r, "check")
  \/ \E s \in ClientIps : PostAbuseBan(s)
  \/ \E s \in ClientIps : PostAbuseUnban(s)
  \/ \E s \in ClientIps, op \in {"add", "remove"} : PostWhitelist(op, s)
  \/ Tick

SpecAdmin == Init /\ [][NextAdmin]_vars

\* the capacity check of a request, next to a caller that reserves and releases
NextCap ==
  \/ \E r \in Handlers : CheckArrive(r)
  \/ \E p \in Handlers : CheckStep(p)
  \/ \E r \in Handlers : MintCheckReturn(r)
  \/ \E r \in Handlers : Depart(r, "reserve")
  \/ \E p \in Holders, n \in 1..MaxRecipients : DirectReserve(p, n)
  \/ \E p \in Holders : ReserveStep(p)
  \/ \E p \in Holders : DirectRelease(p)
  \/ \E p \in Holders : ReleaseStep(p)
  \/ \E p \in Holders : DirectCapReturn(p)
  \/ ChainMintAdvance

SpecCap == Init /\ [][NextCap]_vars

\* two concurrent requests from the capacity check to the response, each
\* resumed from the settle step by the handler's own time bound
NextAdmit ==
  \/ \E r \in Procs : CheckArrive(r)
  \/ \E p \in Procs : CheckStep(p)
  \/ \E r \in Procs : MintCheckReturn(r)
  \/ \E p \in Procs : ReserveStep(p)
  \/ \E r \in Procs : MintReserveReturn(r)
  \/ \E r \in Procs : MintSettleTimeout(r)
  \/ \E p \in Procs : ReleaseStep(p)
  \/ \E r \in Procs : MintReleaseReturn(r)
  \/ ChainMintAdvance

SpecAdmit == Init /\ [][NextAdmit]_vars

\* the pending counter under concurrent callers that reserve and release, over time
NextPend ==
  \/ \E p \in Procs, n \in 1..MaxRecipients : DirectReserve(p, n)
  \/ \E p \in Procs : ReserveStep(p)
  \/ \E p \in Procs : DirectRelease(p)
  \/ \E p \in Procs : ReleaseStep(p)
  \/ \E p \in Procs : DirectCapReturn(p)
  \/ Tick

SpecPend == Init /\ [][NextPend]_vars

\* concurrent requests from the reservation to the response
NextSettle ==
  \/ \E r \in Procs, n \in 1..MaxRecipients : ReserveArrive(r, n)
  \/ \E p \in Procs : ReserveStep(p)
  \/ \E r \in Procs : MintReserveReturn(r)
  \/ TimerFire
  \/ BatchVerifyDone
  \/ BatchSettleDone
  \/ \E r \in Procs : MintSettleTimeout(r)
  \/ \E p \in Procs : ReleaseStep(p)
  \/ \E r \in Procs : MintReleaseReturn(r)

SpecSettle == Init /\ [][NextSettle]_vars

\* the coalescer under callers that only enqueue
NextBatch ==
  \/ \E id \in ItemIds : DirectEnqueue(id)
  \/ TimerFire
  \/ LeakedTimerFire
  \/ BatchVerifyDone
  \/ BatchSettleDone
  \/ CleanupStale
  \/ Tick

SpecBatch == Init /\ [][NextBatch]_vars

\* the same, when every timer fires and every facilitator call returns
SpecBatchLive ==
  /\ Init /\ [][NextBatch]_vars
  /\ WF_vars(TimerFire) /\ WF_vars(BatchVerifyDone) /\ WF_vars(BatchSettleDone)

\* the coalescer under callers that only enqueue, the sweep and the shutdown signal
NextShutdown ==
  \/ \E id \in ItemIds : DirectEnqueue(id)
  \/ TimerFire
  \/ BatchVerifyDone
  \/ BatchSettleDone
  \/ ShutdownSignal
  \/ GracefulDisconnect
  \/ GracefulClose
  \/ ServerClosed
  \/ HardExit
  \/ CleanupStale
  \/ Tick

SpecShutdown == Init /\ [][NextShutdown]_vars

\* the deadline step of concurrent POST /mint and GET /api/capacity requests
NextDeadline ==
  \/ \E r \in Procs : MintStart(r)
  \/ \E r \in Procs : MintDeadlineRead(r)
  \/ \E r \in Procs : MintExpiredReturn(r)
  \/ \E r \in Procs : Depart(r, "verify")
  \/ \E r \in Procs : CapacityStep(r)
  \/ \E p \in Procs : CheckStep(p)
  \/ \E p \in Procs : RecordRequestStep(p)
  \/ Tick

SpecDeadline == Init /\ [][NextDeadline]_vars

\* the connection pool under concurrent callers that acquire and release
NextPool ==
  \/ \E p \in Procs : PoolAcquire(p)
  \/ \E p \in Procs : PoolPing(p)
  \/ \E p \in Procs : PoolCreateDone(p)
  \/ \E p \in Procs : PoolAfterCreate(p)
  \/ \E p \in Procs : PoolAcquireTimeout(p)
  \/ \E p \in Procs : PoolRelease(p)
  \/ \E c \in ConnIds : BackgroundConnect(c)
  \/ \E c \in ConnIds : ConnectionClose(c)
  \/ \E c \in ConnIds : OnClose(c)
  \/ \E c \in ConnIds : OnError(c)
  \/ HealthCheck
  \/ ShutdownSignal
  \/ GracefulDisconnect
  \/ GracefulClose
  \/ ServerClosed
  \/ HardExit
  \/ Tick

SpecPool == Init /\ [][NextPool]_vars

\* the payment-request store under concurrent submitAuthorization calls
NextPay ==
  \/ \E id \in PayIds : CreatePaymentRequest(id)
  \/ \E p \in Procs : SubmitBegin(p)
  \/ \E p \in Procs : SubmitName(p)
  \/ \E p \in Procs : SubmitVerify(p)
  \/ \E p \in Procs : SubmitState(p)
  \/ \E p \in Procs : SubmitWrite(p)
  \/ \E p \in Procs : SubmitReceipt(p)
  \/ \E p \in Procs : SubmitReturn(p)

SpecPay == Init /\ [][NextPay]_vars

\* whole mint requests, one at a time, next to another caller holding capacity
Next ==
  \/ \E r \in Handlers : MintStep(r)
  \/ \E p \in Handlers : RecordRequestStep(p)
  \/ \E p \in Handlers : CheckStep(p)
  \/ \E p \in Holders, n \in 1..MaxRecipients : DirectReserve(p, n)
  \/ \E p \in Procs : ReserveStep(p)
  \/ \E p \in Holders : DirectRelease(p)
  \/ \E p \in Procs : ReleaseStep(p)
  \/ \E p \in Holders : DirectCapReturn(p)
  \/ TimerFire
  \/ BatchVerifyDone
  \/ BatchSettleDone

Spec == Init /\ [][Next]_vars

----------------------------------------------------------------------------
(* Properties *)

\* C1: a mint request that reserved capacity calls releaseCapacity exactly once,
\* with the count it reserved, and the release has returned before the response
\* is sent, whatever the outcome of settle (success, no transaction id,
\* rejection, timeout of the wait).  Checked under SpecSettle.
C1_ReleaseOnceBeforeResponse ==
  \A r \in Procs :
    /\ req[r].pc \in {"reserve", "settle"} => req[r].relCalls = 0
    /\ req[r].pc = "release" =>
         /\ req[r].reserved /\ req[r].relCalls = 1
         /\ cap[r].pc \in {"decrby", "del", "relret"}
         /\ cap[r].site = "mint" /\ cap[r].n = req[r].n
    /\ (req[r].pc = "responded" /\ req[r].reserved) =>
         /\ req[r].relCalls = 1
         /\ "Released" \in Range(req[r].trace)
         /\ cap[r].pc = "idle"

\* a request whose wait for settle timed out has released once and responded
C1_Witness ==
  \E r \in Procs : /\ req[r].pc = "responded" /\ req[r].reserved
                   /\ req[r].sres = "timeout" /\ req[r].relCalls = 1

\* C2: once every request of a batch of callers has responded, and no command on
\* pending_mint:<token> failed meanwhile, the counter is back at the value it
\* had before the first of them reserved; in particular after a failed
\* settlement.  (A value below 0 before the batch, which only a failed DEL of
\* an earlier batch leaves behind, is not restored: the release deletes the
\* key.)  Checked under SpecSettle.
C2_PendingRestored ==
  ((\A r \in Procs : ~InFlight(r)) /\ ~capFault /\ epochPre >= 0) =>
    PendValue = epochPre

\* both callers of a batch were rejected and have responded
C2_Witness ==
  /\ \A r \in Procs : /\ req[r].pc = "responded" /\ req[r].reserved
                      /\ req[r].sres = "reject"
  /\ ~capFault
  /\ PendValue = epochPre

\* C3: when every reserveCapacity(token, n) has been followed by its
\* releaseCapacity(token, n) and no command failed, the key pending_mint:<token>
\* is absent and getPendingCount reads 0.  Checked under SpecPend.
C3_PendingZeroAfterMatchedReleases ==
  ((\A p \in Procs : cap[p].pc \in {"idle", "relret"}) /\ faults = 0) =>
    (~pendExists /\ PendValue = 0)

\* two callers have reserved and released concurrently, after time has passed
C3_Witness ==
  /\ \A p \in Procs : cap[p].pc = "relret" /\ cap[p].site = "direct"
  /\ faults = 0
  /\ now > 0

C5_Stages ==
  <<"Admitted", "Verified", "RateLimited", "CapacityChecked", "CapacityReserved",
    "Settled", "Released", "Done">>

C5_StageNo(s) == CHOOSE i \in 1..Len(C5_Stages) : C5_Stages[i] = s

C6_Step ==
  \A p \in Procs :
    /\ (rr[p].pc # "ret" /\ rr'[p].pc = "ret" /\ ~rr'[p].fault) =>
         /\ rr'[p].count > 0 =>
              (rr'[p].allowed <=> rr'[p].count <= MaxRequestsPerWindow)
         /\ rr'[p].count > MaxRequestsPerWindow =>
              banUntil'[rr[p].key] = now + BanDurationTicks
         /\ rr'[p].sawBan => ~rr'[p].allowed
    /\ (rr[p].pc = "ban" /\ rr'[p].pc # "ban" /\ ~rr'[p].fault /\ BanExists(rr[p].key)) =>
         rr'[p].pc = "ttl"
    /\ (req[p].pc = "rate" /\ req'[p].pc # "rate" /\ ~rr[p].allowed) =>
         (req'[p].status = 429 /\ req'[p].retryAfter > 0)

C7_WhitelistBypass ==
  \A p \in Procs :
    rr[p].wl => (/\ rr[p].pc = "ret" /\ rr[p].allowed
                 /\ rr[p].count = 0 /\ ~rr[p].sawBan)

\* a whitelisted identifier with a ban key and an over-limit count is allowed
C7_Witness ==
  \E p \in Procs : /\ rr[p].pc = "ret" /\ rr[p].wl /\ rr[p].allowed
                   /\ BanExists(rr[p].key)
                   /\ cnt[rr[p].key] > MaxRequestsPerWindow

C9_FailClosed ==
  \A r \in Procs :
    /\ req[r].pc = "verify" => deadlineCache
    /\ (cap[r].pc = "checkret" /\ cap[r].site = "mint" /\ cap[r].fault) =>
         cap[r].result # "ok"

\* C10: a flush takes the first min(N, batchSize) of the N items queued, in
\* the order they were enqueued, nothing beyond them, and the items posted to
\* /settle/batch are the valid ones of the batch in that same order.
\* Checked under SpecBatch.
C10_FlushTakesPrefix ==
  bsm.phase # "idle" =>
    /\ bsm.batch = SubSeq(bsm.snap, 1, Min(Len(bsm.snap), BatchSize))
    /\ \A i \in (BatchSize + 1)..Len(bsm.snap) : bsm.snap[i] \notin Range(bsm.batch)
    /\ bsm.phase = "settle" =>
         /\ bsm.valid = SelectSeq(bsm.batch, LAMBDA i : i \in bsm.validSet)
         /\ Len(bsm.valid) > 0

\* three items were queued, two were taken and both are posted
C10_Witness ==
  /\ bsm.phase = "settle"
  /\ Len(bsm.snap) = BatchSize + 1
  /\ Len(bsm.valid) = BatchSize

\* C11 as stated: of a batch, the items posted to /settle/batch are exactly those
\* the verify step found valid, and every caller whose item failed the verify
\* step is completed with 'Verification failed: <reason>', the reason being
\* that of its own item
C11_InvalidSplit ==
  /\ bsm.phase = "settle" =>
        /\ Range(bsm.valid) = {i \in Range(bsm.batch) : bsm.verify[i] = "valid"}
        /\ Len(bsm.valid) =
             Len(bsm.batch) - Cardinality({i \in Range(bsm.batch) : bsm.verify[i] # "valid"})
  /\ \A i \in ItemIds :
       bsm.done[i].verify \notin {"none", "valid"} =>
         /\ bsm.done[i].kind = "reject"
         /\ bsm.done[i].message = Msg("Verification failed", ReasonText(bsm.done[i].verify))

C12_Failed == Rejected(Msg("Facilitator batch settle failed", "status"))

C12_Step ==
  (/\ bsm.phase = "settle" /\ bsm'.phase # "settle"
   /\ \E i \in Range(bsm.valid) : bsm'.done[i].message = C12_Failed.message) =>
    \A i \in Range(bsm.batch) :
      /\ i \in bsm.promises =>
           (bsm'.done[i].kind = "reject" /\ bsm'.done[i].message = C12_Failed.message)
      /\ i \notin bsm'.promises
      /\ i \notin Range(QueueIds(bsm'.queue))
      /\ i \notin Range(bsm'.batch)

C13_NoWaiterLost == ~bsm.instance => bsm.promises = {}

\* C14 as stated: a settle failure for which the facilitator reported
\* mempool_capacity_exceeded is answered with 400, one for which it reported
\* chain_query_failed with 503
C14_ReasonMapped ==
  \A r \in Procs :
    (req[r].pc = "responded" /\ req[r].sres = "reject") =>
      /\ req[r].details.text = "mempool_capacity_exceeded" => req[r].status = 400
      /\ req[r].details.text = "chain_query_failed" => req[r].status = 503

C15_Step ==
  \A r \in Procs :
    \* past the deadline no request gets to the challenge or to verify
    /\ (req'[r] # req[r] /\ IsTokenExpired(now, deadline) /\ faults' = faults) =>
         ~(\/ req'[r].pc \in {"verify", "rate", "check", "reserve", "settle"}
           \/ /\ req'[r].pc = "responded"
              /\ req'[r].body \in {"payment_required", "invalid_payment_format"})
    \* one recordRequest on the lower-cased "<ip>:expired" runs meanwhile
    /\ req[r].pc = "expired" =>
         /\ rr[r].pc # "idle" /\ rr[r].site = "expired"
         /\ rr[r].key.expired /\ ~rr[r].key.upper
         /\ rr'[r] # rr[r] => rr'[r].pc # "wl"
         /\ (rr[r].pc = "incr" /\ rr'[r].pc # "incr" /\ faults' = faults) =>
              cnt'[rr[r].key] = cnt[rr[r].key] + 1
    \* and its result chooses the body of the 410
    /\ (req[r].pc = "expired" /\ req'[r].pc # "expired") =>
         /\ rr[r].pc = "ret"
         /\ req'[r].pc = "responded" /\ req'[r].status = 410
         /\ req'[r].body = IF rr[r].allowed THEN "remaining" ELSE "minimal"
         /\ (~rr[r].allowed /\ ~rr[r].fault) =>
              (rr[r].sawBan \/ rr[r].count > MaxRequestsPerWindow)

C16_Step ==
  \A r \in Procs :
    /\ (req'[r].pc \in {"expired", "cexpired"} /\ req'[r].pc # req[r].pc) =>
         IsTokenExpired(now, deadline)
    /\ (req'[r].pc \in {"verify", "cstatus"} /\ req'[r].pc # req[r].pc
        /\ faults' = faults) =>
         ~IsTokenExpired(now, deadline)

\* C16 as stated: the deadline step of POST /mint and of GET /api/capacity takes
\* the 410 branch exactly when isTokenExpired holds of the same now and deadline
C16_StrictDeadline == [][C16_Step]_vars

\* the 402 answer to a request without a payment header
C17_Challenge(rec) == rec.pc = "responded" /\ rec.body = "payment_required"

C17_Step ==
  \A r \in Procs :
    \* any two challenges carry the same status, body and header
    /\ \A q \in Procs :
         (C17_Challenge(req'[r]) /\ C17_Challenge(req'[q])) => req'[r] = req'[q]
    \* the steps of a request that ends with the challenge change nothing of
    \* the abuse keys, the pending counter or the coalescer, and no
    \* recordRequest, capacity call or verify was started for it
    /\ ((C17_Challenge(req'[r]) \/ req'[r].pc = "deadline") /\ req'[r] # req[r]) =>
         /\ UNCHANGED <<cnt, cntExp, banUntil, whitelist, rr>>
         /\ UNCHANGED <<pend, pendExists, pendExp, cap, bsm>>
         /\ rr[r].pc = "idle" /\ cap[r].pc = "idle"
         /\ req'[r].vres = "none" /\ req'[r].trace = <<>>
    /\ C17_Challenge(req'[r]) =>
         (req'[r].status = 402 /\ req'[r].options = PaymentOptions(req'[r]))

DeadlineReaders == {r \in Procs : req[r].pc \in {"deadline", "cdeadline"}}

\* the callers whose chain read of maxMintCount() is in flight
MaxMintReaders == {p \in Procs : cap[p].pc = "check" /\ cap[p].maxSt = "wait"}

\* the callers whose chain read of mintCount() is in flight
MintCountReaders == {p \in Procs : cap[p].pc = "check" /\ cap[p].curSt = "wait"}

\* C18 as stated: while no chain read has failed, deploymentDeadline() and
\* maxMintCount() are each read at most once, so no second read of either is
\* issued while the first one is still in flight
C18_ReadOnce ==
  faults = 0 =>
    /\ Cardinality(DeadlineReaders) <= 1
    /\ Cardinality(MaxMintReaders) <= 1

\* C19 as stated: two chain reads of mintCount() are issued at least
\* MintCountTtlTicks apart, also when the calls that issue them overlap
C19_OneReadPerWindow ==
  \A p \in MintCountReaders : \A q \in MintCountReaders \ {p} :
    \/ cap[p].t0 - cap[q].t0 >= MintCountTtlTicks
    \/ cap[q].t0 - cap[p].t0 >= MintCountTtlTicks

\* C20 as stated: once the acquire timer of a waiting caller has fired, the
\* caller is out of waitingQueue and no longer blocked in acquire()
C20_WaiterTimesOut ==
  \A p \in Procs :
    acq[p].timer = "fired" =>
      /\ acq[p].pc # "wait"
      /\ \A i \in 1..Len(pool.waitingQueue) : pool.waitingQueue[i].caller # p

\* C21 as stated: the pool never tracks more than max connections
C21_AtMostMax == Len(pool.connections) <= PoolMax

C22_Step ==
  bsm.processing =>
    \* the batch in flight goes on, from the verify step to the POST at most
    \/ /\ bsm'.processing /\ bsm'.batch = bsm.batch
       /\ bsm'.phase = bsm.phase \/ (bsm.phase = "verify" /\ bsm'.phase = "settle")
    \* or batchSettle has returned and flush completes the batch
    \/ /\ Range(bsm.batch) \cap bsm'.promises = {}
       /\ Range(bsm.batch) \cap Range(QueueIds(bsm'.queue)) = {}
       /\ ~bsm'.processing

\* C22: while processing is true no step starts another batch or sends another
\* round of facilitator requests for the batch in flight: a flush() from the
\* size trigger, the batch timer or the follow-up timer leaves the batch and
\* its step alone, and processing is true exactly while a batch is in flight.
\* Checked under SpecBatch.
C22_OneBatchInFlight ==
  /\ [](bsm.processing <=> bsm.phase # "idle")
  /\ [][C22_Step]_vars

\* the POST of a batch is awaited while a later item sits in the queue with no
\* timer: its enqueue called flush(), which returned at the processing test
C22_Witness ==
  /\ bsm.processing /\ bsm.phase = "settle"
  /\ Len(bsm.queue) > Len(bsm.batch)
  /\ ~bsm.timer.set /\ bsm.leaked = 0

C23_Armed == (Len(bsm.queue) > 0 /\ ~bsm.processing) => bsm.timer.set

\* C23: whenever the queue is non-empty and no flush is in progress a flush
\* timer is armed, and, when timers fire and facilitator calls return, every
\* pending promise is eventually settled.  Checked under SpecBatchLive.
C23_NoItemStranded ==
  /\ []C23_Armed
  /\ \A i \in ItemIds : (i \in bsm.promises) ~> (i \notin bsm.promises)

\* a flush of batchSize items has completed and the item left in the queue
\* waits for the follow-up timer
C23_Witness ==
  /\ ~bsm.processing /\ Len(bsm.queue) = 1 /\ bsm.timer.set
  /\ Cardinality({i \in ItemIds : bsm.done[i].kind = "ok"}) = BatchSize

\* C24 as stated: when the POST to /settle/batch is sent, the items that failed
\* the verify step have been completed already
C24_InvalidCompletedFirst ==
  bsm.phase = "settle" =>
    \A i \in Range(bsm.batch) :
      bsm.verify[i] # "valid" => i \notin bsm.promises

\* C26 as stated: no flush timer is pending next to the one this.timer holds
C26_OneTimer == bsm.leaked = 0

\* C28 as stated: no item of the batch in flight is completed with the sweep's
\* timeout error
C28_NoTimeoutInFlight ==
  \A i \in Range(bsm.batch) : bsm.done[i].message # Msg("Request timeout", "")

C27_Step ==
  (Len(bsm'.queue) < Len(bsm.queue) /\ bsm'.phase = bsm.phase) =>
    LET old == {j \in 1..Len(bsm.queue) : now - bsm.queue[j].ts > StaleTicks}
        oldIds == {bsm.queue[j].id : j \in old}
    IN /\ bsm'.queue = SelectSeq(bsm.queue, LAMBDA it : now - it.ts <= StaleTicks)
       /\ bsm'.promises = bsm.promises \ oldIds
       /\ \A i \in oldIds \cap bsm.promises :
            bsm'.done[i].kind = "reject" /\ bsm'.done[i].message = Msg("Request timeout", "")
       /\ \A i \in ItemIds \ oldIds : bsm'.done[i].kind = "none"
       /\ bsm'.cleaned = Cardinality(old)
       /\ bsm'.timer = bsm.timer /\ bsm'.batch = bsm.batch

\* C27: a run of the sweep drops from the queue exactly the items older than
\* maxAge, rejects the pending promise of each with 'Request timeout', returns
\* their number, and leaves the younger items, their promises and the timer
\* as they were.  Checked under SpecBatch.
C27_SweepRemovesStale == [][C27_Step]_vars

\* a sweep dropped one item and kept a younger one, whose promise is pending
C27_Witness ==
  /\ bsm.cleaned = 1
  /\ Len(bsm.queue) = 1 /\ bsm.promises = {bsm.queue[1].id}
  /\ now - bsm.queue[1].ts <= StaleTicks
  /\ \E i \in ItemIds : bsm.done[i].message = Msg("Request timeout", "")

C29_Inv ==
  /\ Range(QueueIds(bsm.queue)) = bsm.promises
  /\ Len(bsm.queue) = Cardinality(bsm.promises)

C29_Step ==
  \A i \in ItemIds :
    (bsm'.done[i].kind # "none" /\ bsm'.done[i] # bsm.done[i]) =>
      i \in bsm.promises /\ i \notin bsm'.promises

\* C29: the queue and the map of completion handles hold the same requestIds
\* in every state, and a step that invokes the handle of an item finds it in
\* the map and deletes it in the same step, so that no handle is invoked
\* twice.  Checked under SpecShutdown: enqueues, flushes, the sweep, flushAll.
C29_HandlesMatchQueue == []C29_Inv /\ [][C29_Step]_vars

\* flushAll has returned after a flush that settled an item, and nothing is
\* left in the queue or in the map of handles
C29_Witness ==
  /\ bsm.flushAll = "done" /\ bsm.promises = {} /\ bsm.queue = <<>>
  /\ \E i \in ItemIds : bsm.done[i].kind = "ok"
  /\ bsm.leaked = 0 /\ ~bsm.processing

\* C25 as stated: after an answer of POST /settle/batch, every item that was
\* posted and has an entry in the answer is completed with an entry of the
\* answer: a success, or a failure with the facilitator's error
C25_PositionalResults ==
  \A i \in ItemIds :
    (bsm.entries >= 1 /\ bsm.done[i].verify = "valid") =>
      \E e \in SettleResults :
        /\ bsm.done[i].kind = Complete(e).kind
        /\ bsm.done[i].message = Complete(e).message

\* the units (recipients) of the requests of S that hold a reservation
RECURSIVE C30_Units(_)
C30_Units(S) ==
  IF S = {} THEN 0
  ELSE LET r == CHOOSE x \in S : TRUE
       IN (IF InFlight(r) THEN req[r].n ELSE 0) + C30_Units(S \ {r})

\* C30: concurrent requests pass checkCapacity on the same reading of the
\* pending counter and then all reserve, so current + pending can exceed max;
\* while no command fails, the counter holds no more than the units of the
\* requests in flight, so the excess is at most those units, and once they
\* have released the counter reads 0 and current + pending is within max
\* again.  Checked under SpecAdmit.
C30_BoundedOverAdmission ==
  faults = 0 =>
    /\ PendValue <= C30_Units(Procs)
    /\ chainMint + PendValue - MaxMintCount <= C30_Units(Procs)
    /\ (\A r \in Procs : ~InFlight(r)) =>
         (PendValue = 0 /\ chainMint + PendValue <= MaxMintCount)

\* two requests passed their checks on the same reading and both reserved:
\* the counter alone exceeds max
C30_Witness ==
  /\ faults = 0 /\ chainMint = 0
  /\ \A r \in Procs : req[r].pc = "settle" /\ req[r].reserved
  /\ PendValue > MaxMintCount

\* C31: under every interleaving of the commands of concurrent reserves and
\* releases on one token, getPendingCount never reads a negative value and,
\* while no command is in flight, reads the sum of the counts reserved and not
\* yet released, the key being absent when that sum is 0 (no command failed,
\* the key did not expire).  Checked under SpecPend.
C31_CounterMatchesReservations ==
  LET held(p) == IF cap[p].pc = "resret" THEN cap[p].n ELSE 0
      quiet == \A p \in Procs : cap[p].pc \in {"idle", "resret", "relret"}
  IN ~capFault =>
       /\ PendValue >= 0
       /\ quiet => /\ PendValue = held(1) + held(2)
                   /\ pendExists <=> PendValue > 0

\* C32: every existing abuse:count key carries an expiration within the window
\* and every abuse:ban key one within the ban duration, in every state of the
\* store outside the gap between a recordRequest's INCR and its own PEXPIRE,
\* also after a command of a recordRequest has failed.  Checked under SpecAbuse.
C32_KeysCarryExpiry ==
  \A k \in Strings :
    /\ (CountExists(k) /\ ~\E p \in Procs : rr[p].pc = "pexpire" /\ rr[p].key = k) =>
         (cntExp[k] > now /\ cntExp[k] <= now + TimeWindowTicks)
    /\ BanExists(k) => banUntil[k] <= now + BanDurationTicks

\* C33: the administrative operations do not fail open: when the command of
\* manualBan, unban, addToWhitelist or removeFromWhitelist fails, the endpoint
\* that called it does not answer status ok.  Checked under SpecAdmin.
C33_AdminFailuresSurface ==
  (admin.op # "none" /\ admin.o # "ok") => admin.status # 200

\* C34: after a manualBan(id) that succeeded, every recordRequest(id) begun
\* after it and returning within the ban's duration is denied, for every id,
\* upper-case characters included (no command failed, id not whitelisted).
\* Checked under SpecAdmin.
C34_ManualBanDenies ==
  \A p \in Handlers :
    ( /\ admin.op = "ban" /\ admin.o = "ok" /\ now < admin.until
      /\ faults = 0
      /\ p \notin admin.before
      /\ rr[p].pc = "ret" /\ rr[p].key = ToLowerCase(admin.id) /\ ~rr[p].wl )
    => ~rr[p].allowed

\* C35: a caller of execute() whose acquire() obtained no connection (the pool
\* is shutting down, or the wait ended without one) gets an error, never a
\* normal result.  Checked under SpecPool.
C35_AcquireFailureIsError ==
  \A p \in Procs : acq[p].pc = "null" => acq[p].res = "error"

C36_Inv ==
  \A p \in Procs :
    acq[p].pc = "held" =>
      /\ acq[p].conn \notin Range(pool.availableConnections)
      /\ \A q \in Procs \ {p} : acq[q].pc \in {"held", "ping"} => acq[q].conn # acq[p].conn

C36_Step ==
  \A p \in Procs :
    (acq[p].pc = "held" /\ acq'[p] # acq[p]) =>
      LET c == acq[p].conn IN
      /\ acq'[p].pc = "idle" /\ acq'[p].res \in {"value", "error"}
      /\ \/ c \notin pool'.connectionsInUse
         \/ \E w \in Procs \ {p} : /\ acq[w].pc = "wait"
                                   /\ acq'[w].pc = "held" /\ acq'[w].conn = c

\* C36: a pooled connection is held by at most one caller at a time and is
\* not in the free list while held, under acquires with their pings, releases,
\* hand-offs to waiters, error and close events, health checks and shutdown;
\* the step that ends an execute() releases its connection: the caller holds
\* nothing afterwards, and the connection is in use only if the release handed
\* it to a waiter.  Checked under SpecPool.
C36_SingleHolder == []C36_Inv /\ [][C36_Step]_vars

\* a release handed the connection to the caller that waited for it
C36_Witness ==
  \E p \in Procs : \E q \in Procs \ {p} :
    /\ acq[p].pc = "held" /\ acq[p].timer = "cleared"
    /\ acq[q].res \in {"value", "error"}
    /\ acq[p].conn \in pool.connectionsInUse

\* C37: no caller is in waitingQueue while the free list holds a ready
\* connection, outside the moment between a createConnection of acquire() and
\* the pop that follows it.  Checked under SpecPool.
C37_NoWaiterWhileFree ==
  (pool.waitingQueue # <<>> /\ \A p \in Procs : acq[p].pc # "created") =>
    \A c \in Range(pool.availableConnections) : c \notin pool.ready

\* C38: a health-check tick never leaves the pool with fewer than min
\* connections: the total after its eviction is at least the smaller of the
\* total before it and min (no acquire() stands between its createConnection
\* and its pop).  Checked under SpecPool.
C38_EvictionKeepsMin ==
  [][(/\ pool.healthDue # 0 /\ pool'.healthDue = pool.healthDue + HealthCheckTicks
      /\ \A p \in Procs : acq[p].pc # "created") =>
       Len(pool'.connections) >= Min(Len(pool.connections), PoolMin)]_vars

\* C39: on a termination signal the steps run in the order stop accepting
\* requests, flush the coalescer, drain the pool, close the listener, and the
\* forced-exit timer is armed for as long as the shutdown runs.  Checked under
\* SpecShutdown.
C39_ShutdownOrder ==
  LET signalled == bsm.flushAll # "idle" IN
  /\ signalled => server.pc # "listening"
  /\ pool.isShuttingDown => bsm.flushAll = "done"
  /\ server.pc = "closing" => pool.isShuttingDown
  /\ (signalled /\ server.pc # "exited") => server.hardExit # 0

\* C40: of the submitAuthorization calls that carry one nonce, at most one is
\* past the 'not found or already fulfilled' check at any time and at most
\* one transaction is sent for the nonce; a request is fulfilled only by a
\* transaction that succeeded.  Checked under SpecPay.
C40_SingleSubmission ==
  /\ \A p \in Procs : \A q \in Procs \ {p} :
       (/\ pay.sub[p].pc \in {"name", "verify", "state", "write", "receipt"}
        /\ pay.sub[q].pc \in {"name", "verify", "state", "write", "receipt"})
       => pay.sub[p].nonce # pay.sub[q].nonce
  /\ \A n \in PayIds : pay.submitted[n] <= 1
  /\ \A id \in PayIds : pay.requests[id].fulfilled => pay.used[id]

====
